---- MODULE Spec2Model ----
(***************************************************************************)
(* cloudknot: the batch-job submission / polling / result-collection state *)
(* machine (cloudknot.aws.batch.BatchJob) together with the worker script  *)
(* that runs inside the container, the AWS Batch queue and the S3 bucket   *)
(* it talks to.                                                            *)
(*                                                                         *)
(* One caller thread drives one BatchJob object (pc is its position); the  *)
(* remote scheduler and the workers are separate actions that interleave   *)
(* with every step of the caller.  Time is counted in half seconds so that *)
(* the int() truncation of time_diff() is visible.                         *)
(***************************************************************************)
EXTENDS Integers, Sequences, FiniteSets, TLC

(* ------------------------------ bounds -------------------------------- *)
\* largest number of elements of an array job's input
MaxN == 2
\* largest retry ceiling of the job definition (retryStrategy.attempts)
MaxRetries == 2
\* largest finite timeout handed to result(), in half seconds
MaxTimeout == 21
\* longest attempts list a describe_jobs answer carries in SpecDone
MaxAttempts == 3

(* ------------------------- program constants -------------------------- *)
\* time.sleep(5) of the polling loop, in seconds
SleepSecs == 5

JobIds == {"j1", "j2"}
JobDefName == "jd"
Bucket == "bkt"

Statuses ==
  {"SUBMITTED", "PENDING", "RUNNABLE", "STARTING", "RUNNING", "SUCCEEDED", "FAILED"}

VARIABLES
  pc,          \* position of the caller thread
  op,          \* operation in progress / last finished
  array_job,   \* BatchJob._array_job
  input,       \* BatchJob._input
  retries,     \* job_definition.retries
  job_id,      \* BatchJob._job_id ("" while unset)
  created_id,  \* local job_id of _create ("" before submit_job answered)
  clobbered,   \* NamedObject._clobbered
  config,      \* durable record: job ids of section "batch-jobs <profile> <region>"
  timeout,     \* argument of result(): <<>> is None, <<t>> is t half seconds
  elapsed,     \* time.time() - start_time, in half seconds
  state_read,  \* local `state` of terminate()
  idx,         \* array index being collected
  attempt,     \* local `attempt` of _collect_array_job_result
  results,     \* outputs collected so far
  trace,       \* requests the operation in progress has issued, in order
  outcome,     \* how the last operation ended
  snap,        \* flag, durable record and remote kill mark when the operation began
  done_read,   \* last evaluation of BatchJob.done: <<status, #attempts, value>>
  rjob,        \* remote: id of the submitted job ("" if none)
  rsize,       \* remote: arrayProperties.size (0: not an array job)
  status,      \* remote: status of the job
  nAttempts,   \* remote: length of the job's attempts list
  killed,      \* remote: the job was cancelled or terminated
  catt,        \* remote: attempts started per array index
  cdone,       \* remote: array indices whose worker exited successfully
  s3in,        \* bucket: staged input objects, <<key, body>>
  s3out,       \* bucket: staged output objects, [Key, Body]
  prog,        \* which program the caller runs: "job", "pars" or "repo"
  nops,        \* operations the caller has started
  args,        \* arguments of the operation in progress
  pars,        \* the Pars object: built flag and the five constituents it holds
  CONFIG,      \* cloudknot.config.CONFIG: the group's section as last read or set
  cfile,       \* the configuration file
  aws,         \* remote: IAM roles, VPCs, security groups, ECR repositories
  repo,        \* the DockerRepo object
  hist,        \* what the DockerRepo constructions and deletions so far did
  reg,         \* the client registry: cached handles, handles made, locks
  thr,         \* the threads using the registry or the configuration file
  img          \* the DockerImage object

vars ==
  <<pc, op, array_job, input, retries, job_id, created_id, clobbered, config,
    timeout, elapsed, state_read, idx, attempt, results, trace, outcome, snap,
    done_read, rjob, rsize, status, nAttempts, killed, catt, cdone, s3in, s3out,
    prog, nops, args, pars, CONFIG, cfile, aws, repo, hist, reg, thr, img>>

objVars == <<array_job, input, retries>>
resVars ==
  <<prog, nops, args, pars, CONFIG, cfile, aws, repo, hist, reg, thr, img>>
remoteVars == <<rjob, rsize, status, nAttempts, killed, catt, cdone>>
collectVars == <<idx, attempt, results>>

(* ------------------------------ helpers ------------------------------- *)
RECURSIVE Join(_, _)
\* sep.join(parts)
Join(sep, parts) ==
  IF Len(parts) = 0 THEN ""
  ELSE IF Len(parts) = 1 THEN parts[1]
  ELSE parts[1] \o sep \o Join(sep, Tail(parts))

\* "{0:03d}".format(n)
Format03d(n) ==
  IF n < 10 THEN "00" \o ToString(n)
  ELSE IF n < 100 THEN "0" \o ToString(n)
  ELSE ToString(n)

\* cloudpickle.dumps / pickle.loads
Pickle(v) == <<"pickle", v>>
Unpickle(b) == b[2]

\* BatchJob._create: the key the input is staged at
InputKey(jid) == Join("/", <<"cloudknot.jobs", JobDefName, jid, "input.pickle">>)

\* the collector probing a key without the array-index component
OutputKeyNoIndex(jid, i, a) ==
  Join("/", <<"cloudknot.jobs", JobDefName, jid, Format03d(a), "output.pickle">>)

\* BatchJob._collect_array_job_result: the key probed for (idx, attempt)
OutputKey(jid, i, a) ==
  Join("/", <<"cloudknot.jobs", JobDefName, jid, ToString(i), Format03d(a),
              "output.pickle">>)

\* AWS_BATCH_JOB_ID of the container: "<job>:<index>" for a child of an array job
EnvJobId(jid, i) == IF rsize > 0 THEN <<jid, ToString(i)>> ELSE <<jid>>

\* the worker's jobid without the split at the colon
WorkerJobIdWhole(env, arrayflag) == Join(":", env)

\* the worker's jobid: os.environ AWS_BATCH_JOB_ID, split(":")[0] under --arrayjob
WorkerJobId(env, arrayflag) == IF arrayflag THEN env[1] ELSE Join(":", env)

\* the worker script: the key it reads its input from
WorkerInputKey(env, arrayflag) ==
  Join("/", <<"cloudknot.jobs", JobDefName, WorkerJobId(env, arrayflag),
              "input.pickle">>)

\* pickle_to_s3.wrapper: the key it writes its output to
WorkerOutputKey(env, arrayflag, i, a) ==
  Join("/", <<"cloudknot.jobs", JobDefName, WorkerJobId(env, arrayflag),
              IF arrayflag THEN ToString(i) ELSE "0", Format03d(a),
              "output.pickle">>)

\* the worker taking the first element whatever its array index
WorkerArgFirst(inp, arrayflag, i) == IF arrayflag THEN inp[1] ELSE inp

\* the worker script: input_ = input_[array_index] under --arrayjob
WorkerArg(inp, arrayflag, i) == IF arrayflag THEN inp[i + 1] ELSE inp

\* the user's function: None for the argument 0 (or the whole input <<0>>)
ReturnsNone(arg, arrayflag) == IF arrayflag THEN arg = 0 ELSE arg = <<0>>

\* the value the user's function returns in attempt a when it is not None
UserOutput(arg, a) == [arg |-> arg, attempt |-> a]

\* inputs: element i is i, or 0 when the function returns None for it
Inputs(arr) ==
  IF arr
  THEN UNION {{[i \in 1..n |-> IF i \in S THEN i ELSE 0] : S \in SUBSET (1..n)} :
              n \in 1..MaxN}
  ELSE {<<0>>, <<1>>}

\* s3.put_object: the object at the key is replaced
PutObject(store, k, b) == {o \in store : o.Key # k} \cup {[Key |-> k, Body |-> b]}

Indices == IF rsize = 0 THEN {0} ELSE 0..(rsize - 1)

HasKey(store, k) == \E o \in store : o.Key = k
GetBody(store, k) == (CHOOSE o \in store : o.Key = k).Body

NoOutcome == [kind |-> "none", id |-> "", val |-> <<>>]
Raise(kind, id) == [kind |-> kind, id |-> id, val |-> <<>>]
Return(v) == [kind |-> "return", id |-> "", val |-> v]

(* ------------- resources the job program does not touch --------------- *)
\* no Pars object
NoPars == [built |-> FALSE, held |-> <<"", "", "", "", "">>]

\* no operation in progress
NoArgs == [op |-> "none"]

\* no DockerRepo object
NoRepo == [name |-> "", uri |-> "", region |-> "", tags |-> {},
           section |-> "", clobbered |-> FALSE, built |-> FALSE]

\* no DockerImage object
NoImg ==
  [built |-> FALSE, name |-> "", region |-> "", clobbered |-> FALSE,
   images |-> {}, repo_uri |-> ""]

\* threads of the model that use the registry or the configuration file
NThreads == 2

\* the services of the registry in the model, in the order of ClientNameType
\* (two of its seven)
Services == <<"iam", "ecr">>

\* no CloudknotClients object yet: nothing cached, no handle made, no lock held
NoReg ==
  [started |-> FALSE, locked |-> FALSE,
   cache |-> [s \in {Services[i] : i \in 1..Len(Services)} |-> 0],
   made |-> <<>>,
   lock |-> [s \in {Services[i] : i \in 1..Len(Services)} |-> 0],
   cplock |-> [s \in {Services[i] : i \in 1..Len(Services)} |-> 0],
   rlock |-> 0, mark |-> 0, changes |-> 0]

\* every thread at rest
NoThr ==
  [t \in 1..NThreads |->
     [pc |-> "idle", svc |-> "", val |-> 0, got |-> 0, fresh |-> FALSE, i |-> 0,
      read |-> <<>>, upd |-> ""]]

\* the state of everything outside the job program, which it never changes
ResOff ==
  /\ prog = "job"
  /\ nops = 0
  /\ args = NoArgs
  /\ pars = NoPars
  /\ CONFIG = <<>>
  /\ cfile = [pars |-> <<>>, configured |-> TRUE, region |-> "us-east-1",
             ecr_repo |-> <<>>, repos |-> {}, images |-> {}]
  /\ aws = [roles |-> {}, vpcs |-> <<>>, sgs |-> <<>>, repos |-> <<>>]
  /\ repo = NoRepo
  /\ hist = <<>>
  /\ reg = NoReg
  /\ thr = NoThr
  /\ img = NoImg

(* ------------------------------ initial state ------------------------- *)
\* a BatchJob about to be constructed from (name, input_, job_queue, job_definition)
InitJob ==
  /\ pc = "new"
  /\ op = "create"
  /\ array_job \in BOOLEAN
  /\ input \in Inputs(array_job)
  /\ retries \in 1..MaxRetries
  /\ job_id = ""
  /\ created_id = ""
  /\ clobbered = FALSE
  /\ config = {"j0"}
  /\ timeout = <<>>
  /\ elapsed = 0
  /\ state_read = ""
  /\ idx = 0
  /\ attempt = 0
  /\ results = <<>>
  /\ trace = <<>>
  /\ outcome = NoOutcome
  /\ snap = [clobbered |-> FALSE, config |-> {"j0"}, killed |-> FALSE]
  /\ done_read = <<>>
  /\ rjob = ""
  /\ rsize = 0
  /\ status = "NONE"
  /\ nAttempts = 0
  /\ killed = FALSE
  /\ catt = <<>>
  /\ cdone = {}
  /\ s3in = {}
  /\ s3out = {}
  /\ ResOff

(* --------------------------- BatchJob._create ------------------------- *)
\* arrayProperties of the submit_job request (0: none)
SubmitSize == IF array_job THEN Len(input) ELSE 0

\* _create using the job's name where the returned id belongs
StagedName(returned) == "job"

\* the job id _create stages the input under and records
StagedId(returned) == returned

\* clients.batch.submit_job: the queue answers with a job id of its choosing
CreateSubmit ==
  /\ pc = "new"
  /\ \E id \in JobIds :
       /\ rjob' = id
       /\ created_id' = StagedId(id)
       /\ trace' = <<<<"submit_job", id>>>>
  /\ rsize' = SubmitSize
  /\ status' = "SUBMITTED"
  /\ catt' = [i \in (IF SubmitSize = 0 THEN {0} ELSE 0..(SubmitSize - 1)) |-> 0]
  /\ pc' = "c_put"
  /\ UNCHANGED <<op, objVars, resVars, job_id, clobbered, config, timeout, elapsed,
                 state_read, collectVars, outcome, snap, done_read, nAttempts,
                 killed, cdone, s3in, s3out>>

\* clients.s3.put_object of the pickled input; the request may fail
CreatePut ==
  /\ pc = "c_put"
  /\ \/ /\ s3in' = PutObject(s3in, InputKey(created_id), Pickle(input))
        /\ trace' = Append(trace, <<"put_object", InputKey(created_id)>>)
        /\ pc' = "c_record"
        /\ UNCHANGED outcome
     \/ /\ outcome' = Raise("ClientError", created_id)
        /\ pc' = "dead"
        /\ UNCHANGED <<s3in, trace>>
  /\ UNCHANGED <<op, objVars, resVars, job_id, created_id, clobbered, config, timeout,
                 elapsed, state_read, collectVars, snap, done_read, remoteVars,
                 s3out>>

\* cloudknot.config.add_resource(section, job_id, name)
AddResource(section, id) == section \cup {id}

\* cloudknot.config.remove_resource(section, job_id)
RemoveResource(section, id) == section \ {id}

\* add_resource, then self._job_id = the id _create returns
CreateRecord ==
  /\ pc = "c_record"
  /\ config' = AddResource(config, created_id)
  /\ trace' = Append(trace, <<"add_resource", created_id>>)
  /\ job_id' = created_id
  /\ outcome' = Return(<<created_id>>)
  /\ pc' = "idle"
  /\ UNCHANGED <<op, objVars, resVars, created_id, clobbered, timeout, elapsed,
                 state_read, collectVars, snap, done_read, remoteVars, s3in,
                 s3out>>

(* ------------------- the queue and the workers (remote) --------------- *)
NextStatus(s) ==
  CASE s = "SUBMITTED" -> "PENDING"
    [] s = "PENDING" -> "RUNNABLE"
    [] s = "RUNNABLE" -> "STARTING"
    [] s = "STARTING" -> "RUNNING"
    [] OTHER -> s

\* the scheduler moves the job towards RUNNING
RemoteAdvance ==
  /\ status \in {"SUBMITTED", "PENDING", "RUNNABLE", "STARTING"}
  /\ status' = NextStatus(status)
  /\ UNCHANGED <<pc, op, objVars, resVars, job_id, created_id, clobbered, config, timeout,
                 elapsed, state_read, collectVars, trace, outcome, snap,
                 done_read, rjob, rsize, nAttempts, killed, catt, cdone, s3in,
                 s3out>>

\* what one run of the worker script stages: nothing when the function returns None
WorkerPut(store, env, arrayflag, i, a) ==
  LET inp == Unpickle(GetBody(s3in, WorkerInputKey(env, arrayflag)))
      arg == WorkerArg(inp, arrayflag, i)
  IN  IF ReturnsNone(arg, arrayflag)
      THEN store
      ELSE PutObject(store, WorkerOutputKey(env, arrayflag, i, a),
                     Pickle(UserOutput(arg, a)))

\* the worker can read its input and its array index is inside the input
WorkerCanRun(env, arrayflag, i) ==
  /\ HasKey(s3in, WorkerInputKey(env, arrayflag))
  /\ arrayflag =>
       i + 1 <= Len(Unpickle(GetBody(s3in, WorkerInputKey(env, arrayflag))))

\* one attempt of the container for array index i (index 0 of a single job)
WorkerRun(i) ==
  /\ status = "RUNNING"
  /\ ~killed
  /\ i \in Indices
  /\ i \notin cdone
  /\ catt[i] < retries
  /\ LET a == catt[i] + 1
         env == EnvJobId(rjob, i)
     IN  /\ catt' = [catt EXCEPT ![i] = a]
         /\ \/ /\ WorkerCanRun(env, array_job, i)
               /\ s3out' = WorkerPut(s3out, env, array_job, i, a)
               /\ cdone' = cdone \cup {i}
               /\ status' = IF rsize = 0 THEN "SUCCEEDED" ELSE status
            \/ /\ UNCHANGED <<s3out, cdone>>
               /\ status' = IF rsize = 0 THEN "FAILED" ELSE status
         /\ nAttempts' = IF rsize = 0 THEN a ELSE nAttempts
  /\ UNCHANGED <<pc, op, objVars, resVars, job_id, created_id, clobbered, config, timeout,
                 elapsed, state_read, collectVars, trace, outcome, snap,
                 done_read, rjob, rsize, killed, s3in>>

MaxCatt == CHOOSE m \in {catt[i] : i \in Indices} : \A i \in Indices : catt[i] <= m

\* the parent of an array job ends once every child has ended
RemoteFinish ==
  /\ status = "RUNNING"
  /\ rsize > 0
  /\ \A i \in Indices : i \in cdone \/ catt[i] >= retries
  /\ status' = IF cdone = Indices THEN "SUCCEEDED" ELSE "FAILED"
  /\ nAttempts' \in {0, MaxCatt}
  /\ UNCHANGED <<pc, op, objVars, resVars, job_id, created_id, clobbered, config, timeout,
                 elapsed, state_read, collectVars, trace, outcome, snap,
                 done_read, rjob, rsize, killed, catt, cdone, s3in, s3out>>

\* the scheduler retries a failed job that has attempts left
RemoteRetry ==
  /\ status = "FAILED"
  /\ ~killed
  /\ rsize = 0
  /\ nAttempts < retries
  /\ status' = "RUNNABLE"
  /\ UNCHANGED <<pc, op, objVars, resVars, job_id, created_id, clobbered, config, timeout,
                 elapsed, state_read, collectVars, trace, outcome, snap,
                 done_read, rjob, rsize, nAttempts, killed, catt, cdone, s3in,
                 s3out>>

Remote ==
  \/ RemoteAdvance
  \/ \E i \in 0..(MaxN - 1) : WorkerRun(i)
  \/ RemoteFinish
  \/ RemoteRetry

(* ----------------------- BatchJob.status / done ----------------------- *)
\* BatchJob.done with the comparison slipped to >
DoneStrict(stat, n) == stat = "SUCCEEDED" \/ (stat = "FAILED" /\ n > retries)

\* BatchJob.done on the describe_jobs answer (stat, n attempts)
Done(stat, n) == stat = "SUCCEEDED" \/ (stat = "FAILED" /\ n >= retries)

\* BatchJob.status returning instead of raising for a clobbered job
ClobberedReturns(id) == Return(<<>>)

\* BatchJob.status raises for a clobbered job
Clobbered(id) == Raise("ResourceClobberedException", id)

(* --------------------------- BatchJob.result -------------------------- *)
Timeouts == {<<>>, <<0>>, <<2>>, <<MaxTimeout>>}

\* beyond this no finite timeout has time left: the clock saturates there
ElapsedCap == MaxTimeout + 2 * SleepSecs + 2

Advance(e, d) == IF e + d > ElapsedCap THEN ElapsedCap ELSE e + d

\* time_diff() counting the clock's units instead of whole seconds
TimeDiffUnits(e) == e

\* time_diff(): int(time.time() - start_time), whole seconds of e half seconds
TimeDiff(e) == e \div 2

\* timeout is None or time_diff() < timeout (t in half seconds)
TimeLeft(t, e) == t = <<>> \/ 2 * TimeDiff(e) < t[1]

\* the text _collect_array_job_result hands to CKTimeoutError
NotAvailable(b, k) == "Result not available in bucket " \o b \o " with key " \o k

\* result(timeout): start_time = time.time()
ResultCall ==
  /\ pc = "idle"
  /\ job_id # ""
  /\ \E t \in Timeouts : timeout' = t
  /\ elapsed' = 0
  /\ op' = "result"
  /\ trace' = <<>>
  /\ outcome' = NoOutcome
  /\ snap' = [clobbered |-> clobbered, config |-> config, killed |-> killed]
  /\ idx' = 0
  /\ attempt' = 0
  /\ results' = <<>>
  /\ done_read' = <<>>
  /\ state_read' = ""
  /\ pc' = "r_loop"
  /\ UNCHANGED <<objVars, resVars, job_id, created_id, clobbered, config, remoteVars,
                 s3in, s3out>>

\* while not self.done and (timeout is None or time_diff() < timeout)
ResultLoop ==
  /\ pc = "r_loop"
  /\ IF clobbered
     THEN /\ outcome' = Clobbered(job_id)
          /\ pc' = "idle"
          /\ UNCHANGED <<elapsed, done_read>>
     ELSE \E d \in {0, 1} :
            LET e == Advance(elapsed, d)
                dn == Done(status, nAttempts)
            IN  /\ elapsed' = e
                /\ done_read' = <<status, nAttempts, dn>>
                /\ pc' = IF ~dn /\ TimeLeft(timeout, e) THEN "r_sleep" ELSE "r_check"
                /\ UNCHANGED outcome
  /\ UNCHANGED <<op, objVars, resVars, job_id, created_id, clobbered, config, timeout,
                 state_read, collectVars, trace, snap, remoteVars, s3in, s3out>>

\* time.sleep(5)
ResultSleep ==
  /\ pc = "r_sleep"
  /\ elapsed' = Advance(elapsed, 2 * SleepSecs)
  /\ pc' = "r_loop"
  /\ UNCHANGED <<op, objVars, resVars, job_id, created_id, clobbered, config, timeout,
                 state_read, collectVars, trace, outcome, snap, done_read,
                 remoteVars, s3in, s3out>>

\* result() cancelling the job when the wait expires
ResultCheckCancels ==
  /\ pc = "r_check"
  /\ LET dn == (status = "SUCCEEDED" \/ (status = "FAILED" /\ nAttempts >= retries))
     IN  /\ done_read' = <<status, nAttempts, dn>>
         /\ IF dn
            THEN /\ pc' = "r_status"
                 /\ UNCHANGED <<outcome, trace, status, killed>>
            ELSE /\ pc' = "idle"
                 /\ outcome' = Raise("CKTimeoutError", job_id)
                 /\ trace' = Append(trace, <<"cancel_job", job_id>>)
                 /\ status' = "FAILED"
                 /\ killed' = TRUE
  /\ UNCHANGED <<op, objVars, resVars, job_id, created_id, clobbered, config, timeout,
                 elapsed, state_read, collectVars, snap, rjob, rsize, nAttempts,
                 catt, cdone, s3in, s3out>>

\* if not self.done: raise CKTimeoutError(self.job_id)
ResultCheck ==
  /\ pc = "r_check"
  /\ LET dn == Done(status, nAttempts)
     IN  /\ done_read' = <<status, nAttempts, dn>>
         /\ IF dn
            THEN pc' = "r_status" /\ UNCHANGED outcome
            ELSE pc' = "idle" /\ outcome' = Raise("CKTimeoutError", job_id)
  /\ UNCHANGED <<op, objVars, resVars, job_id, created_id, clobbered, config, timeout,
                 elapsed, state_read, collectVars, trace, snap, remoteVars, s3in,
                 s3out>>

\* result() without the FAILED test: it goes on to collect
ResultStatusNoFailedTest ==
  /\ pc = "r_status"
  /\ idx' = 0
  /\ attempt' = retries
  /\ results' = <<>>
  /\ pc' = "r_collect"
  /\ UNCHANGED <<op, objVars, resVars, job_id, created_id, clobbered, config, timeout,
                 elapsed, state_read, trace, outcome, snap, done_read,
                 remoteVars, s3in, s3out>>

\* status = self.status; FAILED raises, otherwise the outputs are collected
ResultStatus ==
  /\ pc = "r_status"
  /\ IF status = "FAILED"
     THEN /\ outcome' = Raise("BatchJobFailedError", job_id)
          /\ pc' = "idle"
          /\ UNCHANGED collectVars
     ELSE IF array_job /\ Len(input) = 0
     THEN /\ outcome' = Return(<<>>)
          /\ pc' = "idle"
          /\ UNCHANGED collectVars
     ELSE /\ idx' = 0
          /\ attempt' = retries
          /\ results' = <<>>
          /\ pc' = "r_collect"
          /\ UNCHANGED outcome
  /\ UNCHANGED <<op, objVars, resVars, job_id, created_id, clobbered, config, timeout,
                 elapsed, state_read, trace, snap, done_read, remoteVars, s3in,
                 s3out>>

\* the scan started one below the retry ceiling
FirstAttemptBelow == IF retries > 0 THEN retries - 1 ELSE 0

\* the attempt _collect_array_job_result starts its scan at
FirstAttempt == retries

\* one round of the scan of _collect_array_job_result: one get_object
CollectProbe ==
  /\ pc = "r_collect"
  /\ LET key == OutputKey(job_id, idx, attempt)
     IN  /\ trace' = Append(trace, <<"get_object", key>>)
         /\ IF HasKey(s3out, key)
            THEN LET v == Unpickle(GetBody(s3out, key))
                 IN  IF ~array_job
                     THEN /\ outcome' = Return(v)
                          /\ pc' = "idle"
                          /\ UNCHANGED collectVars
                     ELSE /\ results' = Append(results, v)
                          /\ IF idx + 1 < Len(input)
                             THEN /\ idx' = idx + 1
                                  /\ attempt' = FirstAttempt
                                  /\ pc' = "r_collect"
                                  /\ UNCHANGED outcome
                             ELSE /\ outcome' = Return(Append(results, v))
                                  /\ pc' = "idle"
                                  /\ UNCHANGED <<idx, attempt>>
            ELSE IF attempt > 0
            THEN /\ attempt' = attempt - 1
                 /\ pc' = "r_collect"
                 /\ UNCHANGED <<idx, results, outcome>>
            ELSE /\ attempt' = attempt - 1
                 /\ outcome' = Raise("CKTimeoutError", NotAvailable(Bucket, key))
                 /\ pc' = "idle"
                 /\ UNCHANGED <<idx, results>>
  /\ UNCHANGED <<op, objVars, resVars, job_id, created_id, clobbered, config, timeout,
                 elapsed, state_read, snap, done_read, remoteVars, s3in, s3out>>

Result == ResultLoop \/ ResultSleep \/ ResultCheck \/ ResultStatus \/ CollectProbe

(* ---------------------- BatchJob.terminate / clobber ------------------ *)
\* terminate() with PENDING left out of the cancel set
TerminateRequestNoPending(state) ==
  IF state \in {"SUBMITTED", "RUNNABLE"} THEN "cancel_job"
  ELSE IF state \in {"STARTING", "RUNNING"} THEN "terminate_job"
  ELSE "none"

\* the request terminate() issues for the status it read
TerminateRequest(state) ==
  IF state \in {"SUBMITTED", "PENDING", "RUNNABLE"} THEN "cancel_job"
  ELSE IF state \in {"STARTING", "RUNNING"} THEN "terminate_job"
  ELSE "none"

\* the queue: cancel_job stops a job that has not started,
\* terminate_job one that has not ended
KillApplies(req) ==
  \/ req = "cancel_job" /\ status \in {"SUBMITTED", "PENDING", "RUNNABLE"}
  \/ req = "terminate_job" /\ status \in Statuses \ {"SUCCEEDED", "FAILED"}

\* terminate(reason): the clobbered check, then state = self.status["status"]
TerminateCall ==
  /\ pc = "idle"
  /\ job_id # ""
  /\ op' = "terminate"
  /\ trace' = <<>>
  /\ done_read' = <<>>
  /\ IF clobbered
     THEN /\ outcome' = Clobbered(job_id)
          /\ pc' = "idle"
          /\ state_read' = ""
     ELSE /\ outcome' = NoOutcome
          /\ state_read' = status
          /\ pc' = "t_act"
  /\ UNCHANGED <<objVars, resVars, job_id, created_id, clobbered, config, timeout,
                 elapsed, collectVars, snap, remoteVars, s3in, s3out>>

\* the cancel_job / terminate_job request of terminate()
TerminateAct ==
  /\ pc = "t_act"
  /\ LET req == TerminateRequest(state_read)
     IN  /\ trace' = IF req = "none" THEN trace ELSE Append(trace, <<req, job_id>>)
         /\ IF KillApplies(req)
            THEN status' = "FAILED" /\ killed' = TRUE
            ELSE UNCHANGED <<status, killed>>
  /\ IF op = "clobber"
     THEN pc' = "k_flag" /\ UNCHANGED outcome
     ELSE pc' = "idle" /\ outcome' = Return(<<>>)
  /\ UNCHANGED <<op, objVars, resVars, job_id, created_id, clobbered, config, timeout,
                 elapsed, state_read, collectVars, snap, done_read, rjob, rsize,
                 nAttempts, catt, cdone, s3in, s3out>>

\* clobber(): return if clobbered, else self.terminate(reason=...)
ClobberCall ==
  /\ pc = "idle"
  /\ job_id # ""
  /\ op' = "clobber"
  /\ trace' = <<>>
  /\ done_read' = <<>>
  /\ snap' = [clobbered |-> clobbered, config |-> config, killed |-> killed]
  /\ IF clobbered
     THEN /\ outcome' = Return(<<>>)
          /\ pc' = "idle"
          /\ state_read' = ""
     ELSE /\ outcome' = NoOutcome
          /\ state_read' = status
          /\ pc' = "t_act"
  /\ UNCHANGED <<objVars, resVars, job_id, created_id, clobbered, config, timeout,
                 elapsed, collectVars, remoteVars, s3in, s3out>>

\* clobber() removing the record before it marks the job clobbered
ClobberFlagAfterRemove ==
  /\ pc = "k_flag"
  /\ config' = config \ {job_id}
  /\ trace' = Append(trace, <<"remove_resource", job_id>>)
  /\ pc' = "k_remove"
  /\ UNCHANGED <<op, objVars, resVars, job_id, created_id, clobbered, timeout, elapsed,
                 state_read, collectVars, outcome, snap, done_read, remoteVars,
                 s3in, s3out>>

\* self._clobbered = True
ClobberFlag ==
  /\ pc = "k_flag"
  /\ clobbered' = TRUE
  /\ trace' = Append(trace, <<"set_clobbered", job_id>>)
  /\ pc' = "k_remove"
  /\ UNCHANGED <<op, objVars, resVars, job_id, created_id, config, timeout, elapsed,
                 state_read, collectVars, outcome, snap, done_read, remoteVars,
                 s3in, s3out>>

\* cloudknot.config.remove_resource(self._section_name, self.job_id): the file is
\* read, changed and written, or reading or writing it fails and the error is
\* the caller's
ClobberRemove ==
  /\ pc = "k_remove"
  /\ trace' = Append(trace, <<"remove_resource", job_id>>)
  /\ \/ /\ config' = RemoveResource(config, job_id)
        /\ outcome' = Return(<<>>)
     \/ /\ outcome' = Raise("OSError", job_id)
        /\ UNCHANGED config
  /\ pc' = "idle"
  /\ UNCHANGED <<op, objVars, resVars, job_id, created_id, clobbered, timeout, elapsed,
                 state_read, collectVars, snap, done_read, remoteVars, s3in,
                 s3out>>

Create == CreateSubmit \/ CreatePut \/ CreateRecord
Terminate == TerminateCall \/ TerminateAct
Clobber == ClobberCall \/ ClobberFlag \/ ClobberRemove

NextJob == Create \/ ResultCall \/ Result \/ Terminate \/ Clobber \/ Remote

SpecJob == InitJob /\ [][NextJob]_vars

FairSpecJob == SpecJob /\ WF_vars(Result)

(* ------------- BatchJob.done against any describe_jobs answer --------- *)
\* an existing, recorded job whose remote record is in any state
InitDone ==
  /\ pc = "idle"
  /\ op = "done"
  /\ array_job = FALSE
  /\ input = <<1>>
  /\ retries \in 0..MaxRetries
  /\ job_id \in JobIds
  /\ created_id = job_id
  /\ clobbered = FALSE
  /\ config = {"j0", job_id}
  /\ timeout = <<>>
  /\ elapsed = 0
  /\ state_read = ""
  /\ idx = 0
  /\ attempt = 0
  /\ results = <<>>
  /\ trace = <<>>
  /\ outcome = NoOutcome
  /\ snap = [clobbered |-> FALSE, config |-> {"j0", job_id}, killed |-> FALSE]
  /\ done_read = <<>>
  /\ rjob = job_id
  /\ rsize = 0
  /\ status \in Statuses
  /\ nAttempts \in 0..MaxAttempts
  /\ killed = FALSE
  /\ catt = [i \in {0} |-> 0]
  /\ cdone = {}
  /\ s3in = {}
  /\ s3out = {}
  /\ ResOff

\* the property BatchJob.done, read on its own
DoneCall ==
  /\ pc = "idle"
  /\ job_id # ""
  /\ op' = "done"
  /\ trace' = <<>>
  /\ IF clobbered
     THEN /\ outcome' = Clobbered(job_id)
          /\ done_read' = <<>>
     ELSE LET dn == Done(status, nAttempts)
          IN  /\ done_read' = <<status, nAttempts, dn>>
              /\ outcome' = Return(<<dn>>)
  /\ UNCHANGED <<pc, objVars, resVars, job_id, created_id, clobbered, config, timeout,
                 elapsed, state_read, collectVars, snap, remoteVars, s3in, s3out>>

\* the queue's record of the job changes in any way
DescribeAny ==
  /\ \E s \in Statuses, n \in 0..MaxAttempts :
       /\ <<s, n>> # <<status, nAttempts>>
       /\ status' = s
       /\ nAttempts' = n
  /\ UNCHANGED <<pc, op, objVars, resVars, job_id, created_id, clobbered, config, timeout,
                 elapsed, state_read, collectVars, trace, outcome, snap,
                 done_read, rjob, rsize, killed, catt, cdone, s3in, s3out>>

NextDone == DoneCall \/ DescribeAny

SpecDone == InitDone /\ [][NextDone]_vars

(* ---------- result collection against any content of the bucket ------- *)
\* the outputs a bucket may hold for the job: any index, any attempt 0..retries
AllOutputs(jid, arr, inp, r) ==
  {[Key |-> OutputKey(jid, i, a),
    Body |-> Pickle(UserOutput(WorkerArg(inp, arr, i), a))] :
      i \in 0..(Len(inp) - 1), a \in 0..r}

\* result() of a SUCCEEDED job at the point where it starts to collect
InitCollect ==
  /\ pc = "r_collect"
  /\ op = "result"
  /\ array_job \in BOOLEAN
  /\ input \in {inp \in Inputs(array_job) : \A i \in 1..Len(inp) : inp[i] # 0}
  /\ retries \in 0..MaxRetries
  /\ job_id \in JobIds
  /\ created_id = job_id
  /\ clobbered = FALSE
  /\ config = {"j0", job_id}
  /\ timeout = <<>>
  /\ elapsed = 0
  /\ state_read = ""
  /\ idx = 0
  /\ attempt = FirstAttempt
  /\ results = <<>>
  /\ trace = <<>>
  /\ outcome = NoOutcome
  /\ snap = [clobbered |-> FALSE, config |-> {"j0", job_id}, killed |-> FALSE]
  /\ done_read = <<"SUCCEEDED", 1, TRUE>>
  /\ rjob = job_id
  /\ rsize = IF array_job THEN Len(input) ELSE 0
  /\ status = "SUCCEEDED"
  /\ nAttempts = 1
  /\ killed = FALSE
  /\ catt = [i \in (IF array_job THEN 0..(Len(input) - 1) ELSE {0}) |-> 1]
  /\ cdone = IF array_job THEN 0..(Len(input) - 1) ELSE {0}
  /\ s3in = {[Key |-> InputKey(job_id), Body |-> Pickle(input)]}
  /\ s3out \in SUBSET AllOutputs(job_id, array_job, input, retries)
  /\ ResOff

NextCollect == CollectProbe

SpecCollect == InitCollect /\ [][NextCollect]_vars

(* =============================== claims =============================== *)
IsPrefix(a, b) == Len(a) <= Len(b) /\ SubSeq(b, 1, Len(a)) = a

EndedResult == op = "result" /\ pc = "idle" /\ outcome.kind # "none"

(* C1: every evaluation of BatchJob.done is true exactly when the status   *)
(* read is SUCCEEDED, or FAILED with at least `retries` recorded attempts; *)
(* it is false for FAILED with fewer attempts and for every other status.  *)
C1_DoneIffTerminal ==
  done_read # <<>> =>
    (done_read[3] <=>
       \/ done_read[1] = "SUCCEEDED"
       \/ done_read[1] = "FAILED" /\ done_read[2] >= retries)

C1_Witness ==
  /\ done_read # <<>>
  /\ done_read[1] = "FAILED"
  /\ done_read[2] < retries
  /\ done_read[3] = FALSE

(* C5: collection probes attempts retries, retries-1, ..., 0 in that order *)
(* for each index, stops at the highest staged attempt and returns its     *)
(* payload, and raises CKTimeoutError naming bucket and last key probed    *)
(* (attempt 0) when no attempt of an index is staged.                      *)
NIdx == IF array_job THEN Len(input) ELSE 1

StagedAttempts(i) == {a \in 0..retries : HasKey(s3out, OutputKey(job_id, i, a))}

Highest(i) ==
  CHOOSE a \in StagedAttempts(i) : \A b \in StagedAttempts(i) : b <= a

ProbesFor(i) ==
  LET low == IF StagedAttempts(i) = {} THEN 0 ELSE Highest(i)
  IN  [k \in 1..(retries - low + 1) |->
         <<"get_object", OutputKey(job_id, i, retries - k + 1)>>]

RECURSIVE ExpectedProbes(_)
ExpectedProbes(i) ==
  IF i >= NIdx THEN <<>>
  ELSE ProbesFor(i) \o
         (IF StagedAttempts(i) = {} THEN <<>> ELSE ExpectedProbes(i + 1))

Unstaged == {i \in 0..(NIdx - 1) : StagedAttempts(i) = {}}

FirstUnstaged == CHOOSE i \in Unstaged : \A j \in Unstaged : i <= j

IsPayload(v, i) ==
  v = UserOutput(WorkerArg(input, array_job, i), Highest(i))

C5_ScanHighToLow ==
  (op = "result" /\ pc \in {"r_collect", "idle"}) =>
    /\ IsPrefix(trace, ExpectedProbes(0))
    /\ pc = "idle" =>
         /\ trace = ExpectedProbes(0)
         /\ IF Unstaged = {}
            THEN /\ outcome.kind = "return"
                 /\ IF array_job
                    THEN /\ Len(outcome.val) = NIdx
                         /\ \A i \in 0..(NIdx - 1) : IsPayload(outcome.val[i + 1], i)
                    ELSE IsPayload(outcome.val, 0)
            ELSE outcome =
                   Raise("CKTimeoutError",
                         NotAvailable(Bucket, OutputKey(job_id, FirstUnstaged, 0)))

C5_Witness ==
  /\ op = "result" /\ pc = "idle"
  /\ retries = MaxRetries
  /\ StagedAttempts(0) = {0, retries - 1}
  /\ outcome.kind = "return"
  /\ ~array_job
  /\ outcome.val.attempt = retries - 1
  /\ Len(trace) = 2

(* C2: result(timeout=t) on a job that is not done ends, and ends by       *)
(* raising CKTimeoutError(job_id): it returns nothing and raises no other  *)
(* error while the job is not done, the timeout error is not raised before *)
(* t has elapsed, and with a finite t the wait always ends.                *)
WaitTimedOut == EndedResult /\ outcome = Raise("CKTimeoutError", job_id)

C2_NotDoneEndsInTimeout ==
  (EndedResult /\ ~snap.clobbered /\ ~Done(status, nAttempts)) => WaitTimedOut

C2_NotBeforeDeadline ==
  WaitTimedOut => (timeout # <<>> /\ elapsed >= timeout[1])

C2_TimeoutAfterDeadline ==
  /\ [](C2_NotDoneEndsInTimeout /\ C2_NotBeforeDeadline)
  /\ [](op = "result" /\ pc # "idle" /\ timeout # <<>> => <>(pc = "idle"))

C2_Witness ==
  /\ WaitTimedOut
  /\ timeout = <<MaxTimeout>>
  /\ ~Done(status, nAttempts)
  /\ status = "FAILED"

(* C3: when the status result() reads after its wait is SUCCEEDED, it      *)
(* returns the collected output (one output per index for an array job)    *)
(* and raises neither a timeout nor a job-failure error.                   *)
C3_SucceededReturns ==
  (EndedResult /\ done_read # <<>> /\ done_read[1] = "SUCCEEDED") =>
    /\ outcome.kind = "return"
    /\ array_job => Len(outcome.val) = Len(input)

(* C4: when the wait of result() ends with the job done in status FAILED,  *)
(* result() raises BatchJobFailedError(job_id) and issues no get_object.   *)
C4_FailedRaisesWithoutRead ==
  /\ (op = "result" /\ done_read # <<>> /\ done_read[3] /\ done_read[1] = "FAILED"
        /\ pc \in {"r_status", "r_collect", "idle"}) =>
       /\ trace = <<>>
       /\ pc # "r_collect"
       /\ pc = "idle" => outcome = Raise("BatchJobFailedError", job_id)

C4_Witness ==
  /\ EndedResult
  /\ outcome = Raise("BatchJobFailedError", job_id)
  /\ done_read = <<"FAILED", retries, TRUE>>
  /\ s3out # {}

(* C6: terminate(reason) issues exactly one cancel_job when the status it  *)
(* read is SUBMITTED, PENDING or RUNNABLE, exactly one terminate_job when  *)
(* it is STARTING or RUNNING, and no request for SUCCEEDED or FAILED.      *)
KillRequests(state) ==
  IF state \in {"SUBMITTED", "PENDING", "RUNNABLE"}
  THEN <<<<"cancel_job", job_id>>>>
  ELSE IF state \in {"STARTING", "RUNNING"}
  THEN <<<<"terminate_job", job_id>>>>
  ELSE <<>>

C6_TerminateRequests ==
  (op = "terminate" /\ ~clobbered) =>
    /\ state_read \in Statuses
    /\ pc = "t_act" => trace = <<>>
    /\ pc = "idle" => trace = KillRequests(state_read)

C6_Witness ==
  /\ op = "terminate" /\ pc = "idle"
  /\ state_read = "PENDING"
  /\ trace = <<<<"cancel_job", job_id>>>>
  /\ status = "FAILED"

(* C7: clobber() of a job not yet clobbered, in any remote status, first   *)
(* performs terminate (the request the status calls for, none for          *)
(* SUCCEEDED / FAILED), then sets the clobbered flag, then removes the     *)
(* job's entry from the durable record.                                    *)
C7_ClobberOrder ==
  (op = "clobber" /\ ~snap.clobbered) =>
    /\ pc = "t_act" =>
         trace = <<>> /\ ~clobbered /\ config = snap.config
    /\ pc = "k_flag" =>
         trace = KillRequests(state_read) /\ ~clobbered /\ config = snap.config
    /\ pc = "k_remove" =>
         /\ trace = KillRequests(state_read) \o <<<<"set_clobbered", job_id>>>>
         /\ clobbered
         /\ config = snap.config
    /\ pc = "idle" =>
         /\ trace = KillRequests(state_read) \o
                      <<<<"set_clobbered", job_id>>, <<"remove_resource", job_id>>>>
         /\ clobbered
         /\ outcome.kind = "return" => config = snap.config \ {job_id}

C7_Witness ==
  /\ op = "clobber" /\ pc = "idle" /\ ~snap.clobbered
  /\ state_read = "SUCCEEDED"
  /\ clobbered
  /\ job_id \notin config
  /\ Len(trace) = 2

(* C8: when result(timeout) ends with a timeout error it has issued no     *)
(* cancel_job or terminate_job and has changed neither the clobbered flag  *)
(* nor the durable record, and the remote job carries no kill mark it did  *)
(* not carry before.                                                       *)
C8_TimeoutLeavesJobAlone ==
  (EndedResult /\ outcome.kind = "CKTimeoutError") =>
    /\ \A k \in 1..Len(trace) : trace[k][1] \notin {"cancel_job", "terminate_job"}
    /\ clobbered = snap.clobbered
    /\ config = snap.config
    /\ killed = snap.killed

C8_Witness ==
  /\ WaitTimedOut
  /\ status = "RUNNING"
  /\ ~killed
  /\ job_id \in config

(* C9: fresh creation issues one submit_job, then stages the input under   *)
(* the key built from the job id that submit_job returned, then adds that  *)
(* id to the durable record; no second submit_job is issued.               *)
C9_CreateOrder ==
  op = "create" =>
    /\ pc = "new" => trace = <<>> /\ rjob = ""
    /\ pc \in {"c_put", "dead"} =>
         /\ trace = <<<<"submit_job", rjob>>>>
         /\ rjob \notin config
    /\ pc = "c_record" =>
         /\ trace = <<<<"submit_job", rjob>>, <<"put_object", InputKey(rjob)>>>>
         /\ HasKey(s3in, InputKey(rjob))
         /\ rjob \notin config
    /\ pc = "idle" =>
         /\ trace = <<<<"submit_job", rjob>>, <<"put_object", InputKey(rjob)>>,
                      <<"add_resource", rjob>>>>
         /\ HasKey(s3in, InputKey(rjob))
         /\ rjob \in config
         /\ job_id = rjob

C9_Witness ==
  /\ op = "create" /\ pc = "idle"
  /\ job_id = "j2"
  /\ "j2" \in config
  /\ status = "RUNNING"

DocPrefix(jid) == "cloudknot.jobs/" \o JobDefName \o "/" \o jid

DocInputKeys(jid) ==
  IF array_job
  THEN {DocPrefix(jid) \o "/" \o ToString(i) \o "/input.pickle" :
          i \in 0..(Len(input) - 1)}
  ELSE {DocPrefix(jid) \o "/input.pickle"}

DocOutputKeys(jid) ==
  IF array_job
  THEN {DocPrefix(jid) \o "/" \o ToString(i) \o "/" \o Format03d(a) \o "/output.pickle" :
          i \in 0..(Len(input) - 1), a \in 0..retries}
  ELSE {DocPrefix(jid) \o "/" \o Format03d(a) \o "/output.pickle" : a \in 0..retries}

MaxVpcs == 2
\* most security groups the network service ever holds
MaxSgs == 3
\* latest position in an operation's remote calls at which a failure is injected
MaxCalls == 6
\* most operations of one run
MaxOps == 3

ParsName == "p"

\* a caller-supplied argument: None, a string, a value of another type
None == [t |-> "none", v |-> ""]
Str(s) == [t |-> "str", v |-> s]
NotStr == [t |-> "int", v |-> "7"]

\* truth value of an argument, and isinstance(x, str)
Truthy(a) == a.t # "none" /\ a.v # ""
IsStr(a) == a.t = "str"

\* the constituents in the order __init__ builds them, and the option each is recorded under
KindOf == <<"role", "role", "role", "vpc", "sg">>
Field ==
  <<"batch-service-role", "ecs-instance-role", "spot-fleet-role", "vpc",
    "security-group">>

\* the attribute names handed to _role_setter, split at "_"
Attr ==
  <<<<"", "batch", "service", "role">>, <<"", "ecs", "instance", "role">>,
    <<"", "spot", "fleet", "role">>>>

\* name + '-cloudknot-...': the default name of constituent k
DefaultName(k) ==
  ParsName \o
    <<"-cloudknot-batch-service-role", "-cloudknot-ecs-instance-role",
      "-cloudknot-spot-fleet-role", "-cloudknot-vpc",
      "-cloudknot-security-group">>[k]

RECURSIVE LStrip(_)
\* attr.lstrip('_') on the split attribute name
LStrip(t) == IF t # <<>> /\ t[1] = "" THEN LStrip(Tail(t)) ELSE t

\* set_role keeping the underscores of the attribute name
FieldNameUnderscore(attr) == Join("_", LStrip(attr))

\* set_role: field_name = attr.lstrip('_').replace('_', '-')
FieldName(attr) == Join("-", LStrip(attr))

\* CONFIG.set(section, option, value) on the group's section
SetOption(sec, f, v) ==
  <<[x \in DOMAIN sec[1] \cup {f} |-> IF x = f THEN v ELSE sec[1][x]]>>

VpcId(i) == "vpc-" \o ToString(i)
SgId(i) == "sg-" \o ToString(i)

\* the remote record of a security group
SgOf(a, id) == a.sgs[CHOOSE i \in 1..Len(a.sgs) : SgId(i) = id]

\* identifiers of the remote objects of a kind that exist
LiveIds(a, k) ==
  CASE k = "role" -> a.roles
    [] k = "vpc" -> {VpcId(i) : i \in {j \in 1..Len(a.vpcs) : a.vpcs[j].live}}
    [] k = "sg" -> {SgId(i) : i \in {j \in 1..Len(a.sgs) : a.sgs[j].live}}

\* result of a constructor or of clobber(): signal, identifier, remote state, calls made
Res(sig, id, a, calls) == [sig |-> sig, id |-> id, aws |-> a, calls |-> calls]

\* the exception a signal is raised as
Exc(sig) ==
  CASE sig = "missing" -> "ResourceDoesNotExistException"
    [] sig = "exists" -> "ResourceExistsException"
    [] sig = "undeletable" -> "CannotDeleteResourceException"
    [] OTHER -> "ClientError"

\* IamRole(name=n), Vpc(vpc_id=i), SecurityGroup(security_group_id=i): adopt the
\* remote object; q = 0: the remote call fails
AdoptForm(a, k, id, q) ==
  IF q = 0 THEN Res("error", id, a, <<<<"describe_" \o k, id, "error">>>>)
  ELSE IF id \in LiveIds(a, k)
  THEN Res("ok", id, a, <<<<"describe_" \o k, id, "found">>>>)
  ELSE Res("missing", id, a, <<<<"describe_" \o k, id, "missing">>>>)

\* IamRole(name=n, ...), Vpc(name=n), SecurityGroup(name=n, vpc=v, description=d):
\* signal the object that exists under the name, else create one
CreateForm(a, k, name, vpc, desc, q) ==
  LET same == CASE k = "role" -> {name} \cap a.roles
                [] k = "vpc" -> {VpcId(i) : i \in {j \in 1..Len(a.vpcs) :
                                   a.vpcs[j].live /\ a.vpcs[j].name = name}}
                [] k = "sg" -> {SgId(i) : i \in {j \in 1..Len(a.sgs) :
                                  /\ a.sgs[j].live
                                  /\ a.sgs[j].name = name
                                  /\ a.sgs[j].vpc = vpc}}
      full == \/ k = "vpc" /\ Len(a.vpcs) >= MaxVpcs
              \/ k = "sg" /\ Len(a.sgs) >= MaxSgs
      id == CASE k = "role" -> name
              [] k = "vpc" -> VpcId(Len(a.vpcs) + 1)
              [] k = "sg" -> SgId(Len(a.sgs) + 1)
      made == CASE k = "role" -> [a EXCEPT !.roles = a.roles \cup {name}]
                [] k = "vpc" ->
                     [a EXCEPT !.vpcs = Append(a.vpcs, [name |-> name, live |-> TRUE])]
                [] k = "sg" ->
                     [a EXCEPT !.sgs = Append(a.sgs, [name |-> name, desc |-> desc,
                                                      vpc |-> vpc, live |-> TRUE])]
      look(ans) == <<"describe_" \o k, name, ans>>
  IN  IF q = 0 THEN Res("error", name, a, <<look("error")>>)
      ELSE IF same # {} THEN Res("exists", CHOOSE x \in same : TRUE, a, <<look("found")>>)
      ELSE IF q = 1 \/ full
      THEN Res("error", name, a, <<look("missing"), <<"create_" \o k, name, "error">>>>)
      ELSE Res("ok", id, made, <<look("missing"), <<"create_" \o k, id, "ok">>>>)

\* x.clobber() of a constituent: delete the remote object; a VPC that still
\* holds a security group cannot be deleted
ClobberOf(a, k, id, q) ==
  LET inuse == k = "vpc" /\ \E j \in 1..Len(a.sgs) : a.sgs[j].live /\ a.sgs[j].vpc = id
      gone == CASE k = "role" -> [a EXCEPT !.roles = a.roles \ {id}]
                [] k = "vpc" ->
                     [a EXCEPT !.vpcs = [i \in 1..Len(a.vpcs) |->
                        IF VpcId(i) = id THEN [a.vpcs[i] EXCEPT !.live = FALSE]
                        ELSE a.vpcs[i]]]
                [] k = "sg" ->
                     [a EXCEPT !.sgs = [i \in 1..Len(a.sgs) |->
                        IF SgId(i) = id THEN [a.sgs[i] EXCEPT !.live = FALSE]
                        ELSE a.sgs[i]]]
  IN  IF q = 0 \/ inuse
      THEN Res("undeletable", id, a, <<<<"delete_" \o k, id, "error">>>>)
      ELSE Res("ok", id, gone, <<<<"delete_" \o k, id, "ok">>>>)

RECURSIVE ClobberAll(_, _, _)
\* x.clobber() for each <<kind, id>> of the list in turn, up to the first that raises
ClobberAll(a, list, q) ==
  IF list = <<>> THEN Res("ok", "", a, <<>>)
  ELSE LET r == ClobberOf(a, list[1][1], list[1][2], q)
           rest == ClobberAll(r.aws, Tail(list), q - 1)
       IN  IF r.sig # "ok" THEN r
           ELSE Res(rest.sig, rest.id, rest.aws, r.calls \o rest.calls)

(* --------------------------- Pars.__init__ ---------------------------- *)
\* the variables of the job program, which the resource programs never change
jobVars ==
  <<array_job, input, retries, job_id, created_id, clobbered, config, timeout,
    elapsed, state_read, idx, attempt, results, done_read, rjob, rsize, status,
    nAttempts, killed, catt, cdone, s3in, s3out>>

\* where a failure of a remote call is injected: before call number fault + 1; -1: nowhere
Faults == -1..MaxCalls

\* arguments of Pars(...): at most one resource argument, or vpc_id with security_group_id
InitArgs ==
  LET one == <<{Str("r1"), NotStr}, {Str("r1"), NotStr}, {Str("r1"), NotStr},
               {Str("vpc-1"), Str("vpc-9"), NotStr}, {Str("sg-1"), NotStr}>>
      res == {[j \in 1..5 |-> None]}
               \cup UNION {{[j \in 1..5 |-> IF j = k THEN x ELSE None] : x \in one[k]} :
                             k \in 1..5}
               \cup {<<None, None, None, Str("vpc-1"), Str("sg-1")>>}
  IN  {[op |-> "init", res |-> r, vpc_name |-> vn, sg_name |-> sn, fault |-> f] :
         r \in res, vn \in {None, NotStr}, sn \in {None, NotStr}, f \in Faults}

\* vpc_name / security_group_name after the defaulting at the top of __init__
NameOf(a, k) ==
  IF k = 4 /\ Truthy(a.vpc_name) THEN a.vpc_name.v
  ELSE IF k = 5 /\ Truthy(a.sg_name) THEN a.sg_name.v
  ELSE DefaultName(k)

\* two constructor calls in a row
Seq2(r1, r2) == [r2 EXCEPT !.calls = r1.calls \o r2.calls]

\* Pars(name, ...): validation of the names, then the branch on the recorded section
ParsInitCall ==
  /\ prog = "pars" /\ pc = "idle" /\ nops < MaxOps
  /\ \E a \in InitArgs :
       IF \/ Truthy(a.vpc_name) /\ ~IsStr(a.vpc_name)
          \/ Truthy(a.sg_name) /\ ~IsStr(a.sg_name)
       THEN /\ outcome' = Raise("ValueError", "name")
            /\ pc' = "idle" /\ args' = NoArgs
            /\ UNCHANGED CONFIG
       ELSE /\ CONFIG' = cfile.pars
            /\ IF cfile.pars = <<>>
               THEN pc' = "n1" /\ args' = a /\ UNCHANGED outcome
               ELSE IF \E k \in 1..5 : Truthy(a.res[k])
               THEN /\ outcome' = Raise("ValueError", "resources")
                    /\ pc' = "idle" /\ args' = NoArgs
               ELSE pc' = "x1" /\ args' = a /\ UNCHANGED outcome
  /\ op' = "init"
  /\ trace' = <<>>
  /\ nops' = nops + 1
  /\ pars' = NoPars
  /\ snap' = [pars |-> pars, cfile |-> cfile, aws |-> aws]
  /\ UNCHANGED <<jobVars, img, reg, thr, prog, cfile, aws, repo, hist>>

\* the constructor's result becomes constituent k and __init__ goes on, or the
\* exception it raised ends __init__
Hold(r, k, cfg) ==
  /\ aws' = r.aws
  /\ trace' = trace \o r.calls
  /\ IF r.sig = "ok"
     THEN /\ pars' = [pars EXCEPT !.held[k] = r.id]
          /\ CONFIG' = cfg
          /\ pc' = IF k = 5 THEN "save"
                   ELSE (IF CONFIG = <<>> THEN "n" ELSE "x") \o ToString(k + 1)
          /\ UNCHANGED <<outcome, args>>
     ELSE /\ outcome' = Raise(Exc(r.sig), r.id)
          /\ pc' = "idle" /\ args' = NoArgs
          /\ UNCHANGED <<pars, CONFIG>>

\* the group is recorded: adopt constituent k by its recorded identifier, create
\* it when it does not exist (any more)
InitRecorded(k) ==
  /\ prog = "pars" /\ op = "init" /\ pc = "x" \o ToString(k)
  /\ LET q == args.fault - Len(trace)
         id == CONFIG[1][Field[k]]
         r1 == AdoptForm(aws, KindOf[k], id, q)
         r2 == CreateForm(aws, KindOf[k], IF k <= 3 THEN id ELSE NameOf(args, k),
                          pars.held[4], "", q - 1)
     IN  IF r1.sig = "missing"
         THEN Hold(Seq2(r1, r2), k,
                   IF k <= 3 THEN CONFIG ELSE SetOption(CONFIG, Field[k], r2.id))
         ELSE Hold(r1, k, CONFIG)
  /\ UNCHANGED <<jobVars, img, reg, thr, prog, op, snap, nops, cfile, repo, hist>>

\* the group is new: validate the argument for constituent k (destroying what
\* was built so far when it is no string), then create or adopt the constituent
InitNew(k) ==
  /\ prog = "pars" /\ op = "init" /\ pc = "n" \o ToString(k)
  /\ LET q == args.fault - Len(trace)
         arg == args.res[k]
     IN  IF Truthy(arg) /\ ~IsStr(arg)
         THEN LET r == ClobberAll(aws, [j \in 1..(k - 1) |-> <<KindOf[j], pars.held[j]>>], q)
              IN  /\ aws' = r.aws
                  /\ trace' = trace \o r.calls
                  /\ outcome' = IF r.sig = "ok" THEN Raise("ValueError", Field[k])
                                ELSE Raise(Exc(r.sig), r.id)
                  /\ pc' = "idle" /\ args' = NoArgs
                  /\ UNCHANGED <<pars, CONFIG>>
         ELSE IF k >= 4 /\ Truthy(arg)
         THEN Hold(AdoptForm(aws, KindOf[k], arg.v, q), k, CONFIG)
         ELSE LET r1 == CreateForm(aws, KindOf[k],
                                   IF Truthy(arg) THEN arg.v ELSE NameOf(args, k),
                                   pars.held[4], "", q)
                  r2 == AdoptForm(aws, KindOf[k], r1.id, q - 1)
              IN  Hold(IF r1.sig = "exists" THEN Seq2(r1, r2) ELSE r1, k, CONFIG)
  /\ UNCHANGED <<jobVars, img, reg, thr, prog, op, snap, nops, cfile, repo, hist>>

\* the end of __init__: the section is added if new, and the file is written
InitSave ==
  /\ prog = "pars" /\ op = "init" /\ pc = "save"
  /\ LET sec == IF CONFIG # <<>> THEN CONFIG
                ELSE <<[f \in {Field[k] : k \in 1..5} |->
                          pars.held[CHOOSE k \in 1..5 : Field[k] = f]]>>
     IN  /\ CONFIG' = sec
         /\ cfile' = [cfile EXCEPT !.pars = sec]
  /\ trace' = Append(trace, <<"write", "pars " \o ParsName, "ok">>)
  /\ pars' = [pars EXCEPT !.built = TRUE]
  /\ outcome' = Return(<<>>)
  /\ pc' = "idle" /\ args' = NoArgs
  /\ UNCHANGED <<jobVars, img, reg, thr, prog, op, snap, nops, aws, repo, hist>>

ParsInit == ParsInitCall \/ (\E k \in 1..5 : InitRecorded(k) \/ InitNew(k)) \/ InitSave

(* ------------------- Pars setters and Pars.clobber -------------------- *)
\* how an operation that is one step of the model begins and ends
Began(o) ==
  /\ prog = "pars" /\ pc = "idle" /\ pars.built /\ nops < MaxOps
  /\ op' = o
  /\ nops' = nops + 1
  /\ snap' = [pars |-> pars, cfile |-> cfile, aws |-> aws]
  /\ UNCHANGED <<jobVars, img, reg, thr, prog, pc, args, repo, hist>>

\* the operation changes nothing further and raises
Raised(kind, id) ==
  /\ outcome' = Raise(kind, id)
  /\ UNCHANGED <<pars, CONFIG, cfile>>

\* the operation ends with the object and the section (read, set, written) as given
Returned(p, sec) ==
  /\ outcome' = Return(<<>>)
  /\ pars' = p
  /\ CONFIG' = sec
  /\ cfile' = [cfile EXCEPT !.pars = sec]

\* set_role of _role_setter(attr): clobber the old role, hold and record the new one
SetRole(k) ==
  /\ Began("set_role")
  /\ \E new \in aws.roles \cup {""}, q \in {-1, 0} :
       LET r == ClobberOf(aws, "role", pars.held[k], q)
       IN  IF new = ""
           THEN trace' = <<>> /\ Raised("ValueError", "new_role") /\ UNCHANGED aws
           ELSE /\ aws' = r.aws
                /\ IF r.sig # "ok"
                   THEN trace' = r.calls /\ Raised(Exc(r.sig), r.id)
                   ELSE /\ trace' = r.calls \o <<<<"write", FieldName(Attr[k]), new>>>>
                        /\ Returned([pars EXCEPT !.held[k] = new],
                                    SetOption(cfile.pars, FieldName(Attr[k]), new))

\* the security_group setter applied to (object, section, remote state)
SgSetter(p, sec, a, sg, q) ==
  LET r == ClobberOf(a, "sg", p.held[5], q)
  IN  IF r.sig # "ok"
      THEN [sig |-> r.sig, id |-> r.id, pars |-> p, sec |-> sec, aws |-> r.aws,
            calls |-> r.calls]
      ELSE [sig |-> "ok", id |-> sg, pars |-> [p EXCEPT !.held[5] = sg],
            sec |-> SetOption(sec, Field[5], sg), aws |-> r.aws,
            calls |-> r.calls \o <<<<"write", Field[5], sg>>>>]

\* pars.security_group = sg
SetSg ==
  /\ Began("set_sg")
  /\ \E sg \in LiveIds(aws, "sg") \cup {""}, q \in {-1, 0} :
       LET s == SgSetter(pars, cfile.pars, aws, sg, q)
       IN  IF sg = ""
           THEN trace' = <<>> /\ Raised("ValueError", "sg") /\ UNCHANGED aws
           ELSE /\ aws' = s.aws
                /\ trace' = s.calls
                /\ IF s.sig # "ok" THEN Raised(Exc(s.sig), s.id)
                   ELSE Returned(s.pars, s.sec)

\* the vpc setter giving the new security group the default name
NewSgNameDefault(old) == DefaultName(5)

\* the vpc setter: sg_name = self.security_group.name
NewSgName(old) == old.name

\* pars.vpc = v: a new security group in v, the security_group setter, then
\* the old VPC is clobbered and v held and recorded
SetVpc ==
  /\ Began("set_vpc")
  /\ \E v \in LiveIds(aws, "vpc") \cup {""}, q \in -1..3 :
       LET old == SgOf(aws, pars.held[5])
           r1 == CreateForm(aws, "sg", NewSgName(old), v, old.desc, q)
           s == SgSetter(pars, cfile.pars, r1.aws, r1.id, q - 2)
           r3 == ClobberOf(s.aws, "vpc", pars.held[4], q - 3)
       IN  IF v = ""
           THEN trace' = <<>> /\ Raised("ValueError", "vpc") /\ UNCHANGED aws
           ELSE IF r1.sig # "ok"
           THEN aws' = r1.aws /\ trace' = r1.calls /\ Raised(Exc(r1.sig), r1.id)
           ELSE IF s.sig # "ok"
           THEN /\ aws' = s.aws
                /\ trace' = r1.calls \o s.calls
                /\ Raised(Exc(s.sig), s.id)
           ELSE IF r3.sig # "ok"
           THEN /\ aws' = r3.aws
                /\ trace' = r1.calls \o s.calls \o r3.calls
                /\ outcome' = Raise(Exc(r3.sig), r3.id)
                /\ pars' = s.pars
                /\ CONFIG' = s.sec
                /\ cfile' = [cfile EXCEPT !.pars = s.sec]
           ELSE /\ aws' = r3.aws
                /\ trace' = r1.calls \o s.calls \o r3.calls
                                \o <<<<"write", Field[4], v>>>>
                /\ Returned([s.pars EXCEPT !.held[4] = v],
                            SetOption(s.sec, Field[4], v))

\* Pars.clobber destroying the roles before the network
ClobberOrderRolesFirst == <<1, 2, 3, 5, 4>>

\* Pars.clobber: the constituents in the order their clobber() is called
ClobberOrder == <<5, 4, 3, 2, 1>>

\* Pars.clobber(): the five clobber() calls, then the section is removed
ParsClobber ==
  /\ Began("clobber")
  /\ \E q \in -1..4 :
       LET r == ClobberAll(aws, [j \in 1..5 |-> <<KindOf[ClobberOrder[j]],
                                                 pars.held[ClobberOrder[j]]>>], q)
       IN  /\ aws' = r.aws
           /\ IF r.sig # "ok"
              THEN trace' = r.calls /\ Raised(Exc(r.sig), r.id)
              ELSE /\ trace' = r.calls \o <<<<"remove_section", "pars " \o ParsName, "ok">>>>
                   /\ Returned([pars EXCEPT !.built = FALSE], <<>>)

(* ---------------- what happens outside the Pars object ---------------- *)
\* a remote object is deleted by someone else
EnvLose ==
  /\ prog = "pars" /\ pc = "idle" /\ nops < MaxOps
  /\ \E k \in {"role", "vpc", "sg"} :
       \E id \in LiveIds(aws, k) :
         /\ ClobberOf(aws, k, id, -1).sig = "ok"
         /\ aws' = ClobberOf(aws, k, id, -1).aws
  /\ op' = "env" /\ nops' = nops + 1
  /\ trace' = <<>> /\ outcome' = NoOutcome
  /\ UNCHANGED <<jobVars, img, reg, thr, prog, pc, args, pars, CONFIG, cfile, snap, repo, hist>>

\* the caller constructs a Vpc or a SecurityGroup of their own, to hand to a setter
CallerMakes ==
  /\ prog = "pars" /\ pc = "idle" /\ nops < MaxOps
  /\ \E k \in {"vpc", "sg"}, v \in LiveIds(aws, "vpc") :
       /\ CreateForm(aws, k, "mine", v, "d2", -1).sig = "ok"
       /\ aws' = CreateForm(aws, k, "mine", v, "d2", -1).aws
  /\ op' = "env" /\ nops' = nops + 1
  /\ trace' = <<>> /\ outcome' = NoOutcome
  /\ UNCHANGED <<jobVars, img, reg, thr, prog, pc, args, pars, CONFIG, cfile, snap, repo, hist>>

\* the job program at rest while a resource program runs
JobOff ==
  /\ array_job = FALSE /\ input = <<>> /\ retries = 0
  /\ job_id = "" /\ created_id = "" /\ clobbered = FALSE /\ config = {}
  /\ timeout = <<>> /\ elapsed = 0 /\ state_read = ""
  /\ idx = 0 /\ attempt = 0 /\ results = <<>> /\ done_read = <<>>
  /\ rjob = "" /\ rsize = 0 /\ status = "NONE" /\ nAttempts = 0
  /\ killed = FALSE /\ catt = <<>> /\ cdone = {}
  /\ s3in = {} /\ s3out = {}

\* no group recorded; remotely a VPC with a security group of someone's, and
\* possibly roles under the names the group will use
InitPars ==
  /\ JobOff
  /\ prog = "pars" /\ pc = "idle" /\ op = "none"
  /\ nops = 0 /\ args = NoArgs
  /\ trace = <<>> /\ outcome = NoOutcome
  /\ pars = NoPars
  /\ CONFIG = <<>>
  /\ cfile = [pars |-> <<>>, configured |-> TRUE, region |-> "us-east-1",
             ecr_repo |-> <<>>, repos |-> {}, images |-> {}]
  /\ \E rs \in SUBSET {"r1", DefaultName(1)} :
       aws = [roles |-> rs,
              vpcs |-> <<[name |-> "v1", live |-> TRUE]>>,
              sgs |-> <<[name |-> "g1", desc |-> "d1", vpc |-> VpcId(1), live |-> TRUE]>>,
              repos |-> <<>>]
  /\ snap = [pars |-> pars, cfile |-> cfile, aws |-> aws]
  /\ repo = NoRepo
  /\ hist = <<>>
  /\ reg = NoReg
  /\ thr = NoThr
  /\ img = NoImg

NextPars ==
  \/ ParsInit
  \/ \E k \in 1..3 : SetRole(k)
  \/ SetSg
  \/ SetVpc
  \/ ParsClobber
  \/ EnvLose
  \/ CallerMakes

SpecPars == InitPars /\ [][NextPars]_vars

(* ----------------------- claims about Pars ---------------------------- *)
\* the requests of the operation without the answers
Calls == [k \in 1..Len(trace) |-> <<trace[k][1], trace[k][2]>>]

EndedPars(o) == prog = "pars" /\ op = o /\ pc = "idle" /\ outcome.kind # "none"

(* C12: Pars.clobber() destroys security group, VPC, spot-fleet role,      *)
(* ECS-instance role, batch-service role in exactly that order and removes *)
(* the group's section only after all five destructions returned; if a     *)
(* destruction raises, no later constituent has been destroyed and the     *)
(* section is still present.                                               *)
C12_ParsClobberOrder ==
  EndedPars("clobber") =>
    LET h == snap.pars.held
        full == <<<<"delete_sg", h[5]>>, <<"delete_vpc", h[4]>>, <<"delete_role", h[3]>>,
                  <<"delete_role", h[2]>>, <<"delete_role", h[1]>>,
                  <<"remove_section", "pars " \o ParsName>>>>
        kinds == <<"sg", "vpc", "role", "role", "role">>
    IN  /\ IsPrefix(Calls, full)
        /\ \A k \in 1..(Len(trace) - 1) : trace[k][3] = "ok"
        /\ outcome.kind = "return" =>
             /\ Calls = full
             /\ cfile.pars = <<>>
             /\ snap.cfile.pars # <<>>
        /\ outcome.kind # "return" =>
             /\ Len(trace) \in 1..5
             /\ trace[Len(trace)][3] = "error"
             /\ cfile.pars = snap.cfile.pars /\ cfile.pars # <<>>
             /\ \A j \in (Len(trace) + 1)..5 :
                  (/\ full[j][2] \in LiveIds(snap.aws, kinds[j])
                   /\ \A i \in 1..Len(trace) : full[i] # full[j])
                    => full[j][2] \in LiveIds(aws, kinds[j])

C12_Witness ==
  /\ EndedPars("clobber")
  /\ outcome.kind = "CannotDeleteResourceException"
  /\ Len(trace) = 3
  /\ pars.held[5] \notin LiveIds(aws, "sg")
  /\ pars.held[4] \notin LiveIds(aws, "vpc")
  /\ {pars.held[1], pars.held[2], pars.held[3]} \subseteq aws.roles
  /\ cfile.pars # <<>>

(* C13: replacing the VPC of a group creates exactly one new security      *)
(* group, bound to the new VPC and with the old security group's name and  *)
(* description, then destroys the old security group, then the old VPC,    *)
(* and only then holds the new VPC.                                        *)
C13_VpcReplacement ==
  (EndedPars("set_vpc") /\ outcome.kind # "ValueError") =>
    LET h == snap.pars.held
        old == SgOf(snap.aws, h[5])
        new == SgId(Len(snap.aws.sgs) + 1)
        full(v) == <<<<"describe_sg", old.name>>, <<"create_sg", new>>,
                     <<"delete_sg", h[5]>>, <<"write", "security-group">>,
                     <<"delete_vpc", h[4]>>, <<"write", "vpc">>>>
        made == {k \in 1..Len(trace) : trace[k][1] = "create_sg" /\ trace[k][3] = "ok"}
    IN  /\ outcome.kind = "return" =>
             /\ [k \in 1..Len(trace) |->
                   IF trace[k][1] = "write" THEN <<"write", trace[k][2]>> ELSE Calls[k]]
                  = full(pars.held[4])
             /\ Cardinality(made) = 1
             /\ Len(aws.sgs) = Len(snap.aws.sgs) + 1
             /\ SgOf(aws, new) = [name |-> old.name, desc |-> old.desc,
                                  vpc |-> pars.held[4], live |-> TRUE]
             /\ pars.held[5] = new
             /\ h[5] \notin LiveIds(aws, "sg")
             /\ h[4] \notin LiveIds(aws, "vpc")
             /\ trace[6] = <<"write", "vpc", pars.held[4]>>
        /\ outcome.kind # "return" =>
             /\ pars.held[4] = h[4]
             /\ Cardinality(made) <= 1
             /\ Len(trace) <= 5
             /\ \A k \in 1..Len(trace) :
                  /\ trace[k][1] = full("")[k][1]
                  /\ trace[k][1] # "write" /\ k # 2 => trace[k][2] = full("")[k][2]
             /\ h[4] \notin LiveIds(aws, "vpc") => h[4] \notin LiveIds(snap.aws, "vpc")

C13_Witness ==
  /\ EndedPars("set_vpc") /\ outcome.kind = "return"
  /\ snap.pars.held[4] = VpcId(1) /\ snap.pars.held[5] = SgId(1)
  /\ pars.held[4] = VpcId(2)
  /\ SgOf(aws, pars.held[5]).name = "g1"
  /\ SgOf(aws, pars.held[5]).desc = "d1"

(* C14: after a construction and after any replacement of the VPC or of    *)
(* the security group, the security group the group holds is bound to the  *)
(* VPC the group holds.                                                    *)
C14_SgBoundToVpc ==
  (/\ outcome.kind = "return"
   /\ \/ EndedPars("init") \/ EndedPars("set_vpc") \/ EndedPars("set_sg"))
    => SgOf(aws, pars.held[5]).vpc = pars.held[4]

\* what the construction created and what of it still exists
CreatedNow ==
  {k \in 1..Len(trace) : trace[k][3] = "ok" /\
     trace[k][1] \in {"create_role", "create_vpc", "create_sg"}}

LeftBehind ==
  {k \in CreatedNow :
     \/ trace[k][1] = "create_role" /\ trace[k][2] \in LiveIds(aws, "role")
     \/ trace[k][1] = "create_vpc" /\ trace[k][2] \in LiveIds(aws, "vpc")
     \/ trace[k][1] = "create_sg" /\ trace[k][2] \in LiveIds(aws, "sg")}

(* C15: when a group is constructed under a new name and a later           *)
(* constituent fails validation (a name or identifier of the wrong type,   *)
(* or one that is not valid), every constituent created so far is          *)
(* destroyed before the error reaches the caller and no record is written. *)
C15_NoPartialGroup ==
  (/\ EndedPars("init")
   /\ snap.cfile.pars = <<>>
   /\ outcome.kind \in {"ValueError", "ResourceDoesNotExistException"})
    => LeftBehind = {} /\ cfile.pars = <<>>

(* C16: after a construction from an existing record every constituent    *)
(* exists remotely (one that was missing has been recreated) and the       *)
(* record's fields equal the identifiers the group holds; the same         *)
(* equality holds after every completed replacement.                       *)
C16_RecordMatchesHeld ==
  (/\ outcome.kind = "return"
   /\ \/ EndedPars("init") \/ EndedPars("set_role")
      \/ EndedPars("set_vpc") \/ EndedPars("set_sg"))
    => /\ cfile.pars # <<>>
       /\ DOMAIN cfile.pars[1] = {Field[k] : k \in 1..5}
       /\ \A k \in 1..5 : cfile.pars[1][Field[k]] = pars.held[k]
       /\ pars.built
       /\ op = "init" => \A k \in 1..5 : pars.held[k] \in LiveIds(aws, KindOf[k])

C16_Witness ==
  /\ EndedPars("init") /\ outcome.kind = "return"
  /\ snap.cfile.pars # <<>>
  /\ snap.cfile.pars[1]["security-group"] \notin LiveIds(snap.aws, "sg")
  /\ cfile.pars[1]["security-group"] # snap.cfile.pars[1]["security-group"]
  /\ pars.held[5] \in LiveIds(aws, "sg")

(* C17: during group construction a failure of the cleanup of partially    *)
(* created constituents is not raised: the error that reaches the caller   *)
(* is the original construction failure.                                   *)
C17_CleanupFailureNotRaised ==
  (/\ EndedPars("init")
   /\ \E k \in 1..Len(trace) : trace[k][1] \in {"delete_role", "delete_vpc", "delete_sg"})
    => outcome.kind = "ValueError"

(* ================= DockerRepo and the ECR repositories ================ *)
\* repositories ever created in the model
MaxRepos == 2

\* get_user(): the user name the identity service answers
User == "alice"

\* the regions describe_regions() lists
Regions == {"us-east-1", "us-west-2"}

\* re.compile(r"^[a-zA-Z][-a-zA-Z0-9]*$").match(name), name as its characters;
\* $ also matches in front of a newline that ends the string
PatternMatch(n) ==
  LET letters == {"a", "c", "d", "k", "l", "n", "o", "t", "u", "A"}
      digits == {"1"}
  IN  /\ Len(n) >= 1
      /\ n[1] \in letters
      /\ \E e \in {Len(n), Len(n) - 1} :
           /\ e >= 1
           /\ \A j \in 2..e : n[j] \in letters \cup digits \cup {"-"}
           /\ e < Len(n) => n[Len(n)] = "\n"

\* names a caller passes, as their characters
RepoNames ==
  {<<"a">>, <<"c", "l", "o", "u", "d", "k", "n", "o", "t">>, <<"a", "\n">>,
   <<"1", "a">>, <<"a", "_">>}

\* additional_tags of set_ecr_repo, and of DockerRepo when aws_resource_tags is None
DefaultTags == [t |-> "dict", v |-> <<[Project |-> "Cloudknot global config"]>>]

\* aws_resource_tags a caller passes: None, a dict (v holds it), a list of dicts (v),
\* something else
TagArgs ==
  {[t |-> "none", v |-> <<>>],
   [t |-> "dict", v |-> <<[team |-> "x"]>>],
   [t |-> "dict", v |-> <<[Owner |-> "mallory"]>>],
   [t |-> "dict", v |-> <<[Name |-> "other", Environment |-> "prod"]>>],
   [t |-> "dict", v |-> <<[Key |-> "team", Value |-> "x"]>>],
   [t |-> "list", v |-> <<[Key |-> "team", Value |-> "x"], [Key |-> "team", Value |-> "y"]>>],
   [t |-> "list", v |-> <<[Key |-> "Owner", Value |-> "mallory"]>>],
   [t |-> "list", v |-> <<[team |-> "x"]>>],
   [t |-> "other", v |-> <<>>]}

\* get_tags(name, additional_tags): the tag list, or ValueError (ok = FALSE)
GetTags(name, additional) ==
  LET items == additional.v
      keys == {items[j]["Key"] : j \in 1..Len(items)}
      last(k) == CHOOSE j \in 1..Len(items) :
                   /\ items[j]["Key"] = k
                   /\ \A i \in (j + 1)..Len(items) : items[i]["Key"] # k
      fromlist == [k \in keys |-> items[last(k)]["Value"]]
      setdefault(d, k, v) ==
        [x \in DOMAIN d \cup {k} |-> IF x \in DOMAIN d THEN d[x] ELSE v]
      fin(d) == LET full == setdefault(setdefault(setdefault(d, "Name", name),
                                                  "Owner", User),
                                       "Environment", "cloudknot")
                IN  [ok |-> TRUE,
                     tags |-> {[Key |-> k, Value |-> full[k]] : k \in DOMAIN full}]
      bad == [ok |-> FALSE, tags |-> {}]
  IN  CASE additional.t = "none" -> fin([x \in {} |-> ""])
        [] additional.t = "list" ->
             IF \A j \in 1..Len(items) : {"Key", "Value"} \subseteq DOMAIN items[j]
             THEN fin(fromlist) ELSE bad
        [] additional.t = "dict" ->
             IF "Key" \in DOMAIN items[1] \/ "Value" \in DOMAIN items[1]
             THEN bad ELSE fin(items[1])
        [] OTHER -> bad

\* repositoryUri of the j-th repository created
RepoUri(j) == "uri-" \o ToString(j)

\* except clients.ecr.exceptions.RepositoryNotFoundException, taken on any answer
\* but a repository
IsNotFoundOrError(ans) == ans # "ok"

\* the lookup's answer ignored: create_repository whatever it was
IsNotFoundAlways(ans) == TRUE

\* except clients.ecr.exceptions.RepositoryNotFoundException
IsNotFound(ans) == ans = "missing"

\* describe_repositories(repositoryNames=[name]) and, when the repository is not
\* found, create_repository(repositoryName=name); q = 0: the next call fails
DescribeOrCreate(a, region, name, q) ==
  LET found == {j \in 1..Len(a.repos) : /\ a.repos[j].live
                                        /\ a.repos[j].region = region
                                        /\ a.repos[j].name = name}
      ans == IF q = 0 THEN "error" ELSE IF found # {} THEN "ok" ELSE "missing"
      look == <<"describe_repositories", name, ans>>
      new == Len(a.repos) + 1
      made == [a EXCEPT !.repos = Append(a.repos, [region |-> region, name |-> name,
                                                   live |-> TRUE, tags |-> {}])]
  IN  IF IsNotFound(ans)
      THEN IF q = 1 \/ found # {} \/ new > MaxRepos
           THEN Res("error", 0, a, <<look, <<"create_repository", name, "error">>>>)
           ELSE Res("ok", new, made, <<look, <<"create_repository", name, "ok">>>>)
      ELSE IF ans = "ok"
      THEN Res("ok", CHOOSE j \in found : TRUE, a, <<look>>)
      ELSE Res("error", 0, a, <<look>>)

\* clients.ecr.tag_resource(resourceArn, tags): the tags are added to the
\* repository's, replacing those of the same key
TagResource(a, j, tags) ==
  [a EXCEPT !.repos[j].tags =
     {t \in @ : \A n \in tags : n.Key # t.Key} \cup tags]

\* set_ecr_repo(repo): record the name, look the repository up or create it, tag it
SetEcrRepoOf(cf, a, name, q) ==
  LET cf2 == [cf EXCEPT !.ecr_repo = <<name>>]
      wr == <<"write", "ecr-repo", name>>
      r == DescribeOrCreate(a, cf.region, name, q)
      q2 == q - Len(r.calls)
      user(ans) == <<"get_user", "", ans>>
      tags == GetTags(name, DefaultTags).tags
  IN  IF r.sig # "ok"
      THEN [sig |-> "error", id |-> 0, aws |-> r.aws, cfile |-> cf2,
            calls |-> <<wr>> \o r.calls]
      ELSE IF q2 = 0
      THEN [sig |-> "error", id |-> 0, aws |-> r.aws, cfile |-> cf2,
            calls |-> <<wr>> \o r.calls \o <<user("error")>>]
      ELSE IF q2 = 1
      THEN [sig |-> "error", id |-> 0, aws |-> r.aws, cfile |-> cf2,
            calls |-> <<wr>> \o r.calls
                        \o <<user("ok"), <<"tag_resource", name, "error", tags>>>>]
      ELSE [sig |-> "ok", id |-> r.id, aws |-> TagResource(r.aws, r.id, tags),
            cfile |-> cf2,
            calls |-> <<wr>> \o r.calls
                        \o <<user("ok"), <<"tag_resource", name, "ok", tags>>>>]

\* an operation of the repository program begins
BeganRepo(o, a) ==
  /\ prog = "repo" /\ pc = "idle" /\ nops < MaxOps
  /\ op' = o
  /\ nops' = nops + 1
  /\ args' = a
  /\ snap' = [cfile |-> cfile, aws |-> aws, repo |-> repo, hist |-> hist]
  /\ UNCHANGED <<jobVars, img, reg, thr, prog, pc, pars, CONFIG>>

\* the calls DockerRepo(name, aws_resource_tags) of the model, each with the remote
\* call that fails: every name without tags, every tag argument with the name "a"
RepoInitCalls ==
  {c \in [name : RepoNames, tags : TagArgs, fault : -1..3] :
     /\ c.tags.t # "none" => c.name = <<"a">> /\ c.fault = -1
     /\ ~PatternMatch(c.name) => c.fault = -1}

\* DockerRepo(name, aws_resource_tags)
RepoInit ==
  \E c \in RepoInitCalls :
    LET name == c.name
        tg == c.tags
        q == c.fault
        nm == Join("", name)
        t == GetTags(nm, IF tg.t = "none" THEN DefaultTags ELSE tg)
        r == DescribeOrCreate(aws, cfile.region, nm, q - 1)
        q2 == q - 1 - Len(r.calls)
        user(ans) == <<"get_user", "", ans>>
        section == "docker-repos default " \o cfile.region
        fail(kind, calls, a) ==
          /\ trace' = calls
          /\ outcome' = Raise(kind, nm)
          /\ aws' = a
          /\ UNCHANGED <<repo, cfile, hist>>
    IN  /\ BeganRepo("DockerRepo", [op |-> "DockerRepo", name |-> name,
                                    tags |-> tg, fault |-> q])
        /\ CASE ~cfile.configured -> fail("CloudknotConfigurationError", <<>>, aws)
             [] cfile.configured /\ ~PatternMatch(name) ->
                  fail("CloudknotInputError", <<>>, aws)
             [] cfile.configured /\ PatternMatch(name) /\ ~t.ok ->
                  fail("ValueError", <<>>, aws)
             [] OTHER ->
                  IF q = 0 THEN fail("ClientError", <<user("error")>>, aws)
                  ELSE IF r.sig # "ok"
                  THEN fail("ClientError", <<user("ok")>> \o r.calls, r.aws)
                  ELSE IF q2 = 0
                  THEN fail("ClientError",
                            <<user("ok")>> \o r.calls
                              \o <<<<"tag_resource", nm, "error", t.tags>>>>, r.aws)
                  ELSE /\ trace' = <<user("ok")>> \o r.calls
                                     \o <<<<"tag_resource", nm, "ok", t.tags>>,
                                          <<"add_resource", section, nm>>>>
                       /\ outcome' = Return(<<>>)
                       /\ aws' = TagResource(r.aws, r.id, t.tags)
                       /\ repo' = [name |-> nm, uri |-> RepoUri(r.id),
                                   region |-> cfile.region, tags |-> t.tags,
                                   section |-> section, clobbered |-> FALSE,
                                   built |-> TRUE]
                       /\ cfile' = [cfile EXCEPT !.repos =
                                      {x \in @ : ~(x.section = section /\ x.name = nm)}
                                        \cup {[section |-> section, name |-> nm,
                                               uri |-> RepoUri(r.id)]}]
                       /\ hist' = <<[name |-> nm, region |-> cfile.region,
                                     id |-> r.id, made |-> Len(r.calls) = 2]>>

\* set_ecr_repo(repo)
SetEcrRepo ==
  \E name \in {<<"a">>, <<"c", "l", "o", "u", "d", "k", "n", "o", "t">>, <<"a", "_">>},
     q \in -1..3 :
    LET nm == Join("", name)
        r == SetEcrRepoOf(cfile, aws, nm, q)
    IN  /\ BeganRepo("set_ecr_repo", [op |-> "set_ecr_repo", name |-> name,
                                      tags |-> DefaultTags, fault |-> q])
        /\ trace' = r.calls
        /\ aws' = r.aws
        /\ cfile' = r.cfile
        /\ UNCHANGED repo
        /\ IF r.sig # "ok"
           THEN outcome' = Raise("ClientError", nm) /\ UNCHANGED hist
           ELSE /\ outcome' = Return(<<>>)
                /\ hist' = <<[name |-> nm, region |-> cfile.region, id |-> r.id,
                              made |-> Len(r.calls) = 5]>>

\* DockerRepo.clobber()
RepoClobber ==
  \E q \in -1..4 :
    LET global == IF cfile.ecr_repo # <<>> THEN cfile.ecr_repo[1] ELSE "cloudknot"
        g == SetEcrRepoOf(cfile, aws, global, q)
        q2 == q - (Len(g.calls) - 1)
        there == {j \in 1..Len(g.aws.repos) : /\ g.aws.repos[j].live
                                              /\ g.aws.repos[j].region = cfile.region
                                              /\ g.aws.repos[j].name = repo.name}
        ans == IF q2 = 0 THEN "error" ELSE IF there = {} THEN "missing" ELSE "ok"
        gone == [g.aws EXCEPT !.repos = [j \in 1..Len(@) |->
                   IF j \in there /\ ans = "ok" THEN [@[j] EXCEPT !.live = FALSE]
                   ELSE @[j]]]
        forget == <<"remove_resource", repo.section, repo.name>>
        record == [g.cfile EXCEPT !.repos =
                     {x \in @ : ~(x.section = repo.section /\ x.name = repo.name)}]
    IN  /\ repo.built
        /\ BeganRepo("clobber", [op |-> "clobber", name |-> <<>>,
                                 tags |-> DefaultTags, fault |-> q])
        /\ IF repo.clobbered
           THEN /\ trace' = <<>> /\ outcome' = Return(<<>>)
                /\ UNCHANGED <<aws, cfile, repo, hist>>
           ELSE IF repo.region # cfile.region
           THEN /\ trace' = <<>> /\ outcome' = Raise("RegionException", repo.region)
                /\ UNCHANGED <<aws, cfile, repo, hist>>
           ELSE IF g.sig # "ok"
           THEN /\ trace' = g.calls /\ outcome' = Raise("ClientError", global)
                /\ aws' = g.aws /\ cfile' = g.cfile
                /\ UNCHANGED <<repo, hist>>
           ELSE /\ outcome' = Return(<<>>)
                /\ repo' = [repo EXCEPT !.clobbered = TRUE]
                /\ cfile' = record
                /\ IF repo.name # global
                   THEN /\ trace' = g.calls
                                      \o <<<<"delete_repository", repo.name, ans>>, forget>>
                        /\ aws' = gone
                        /\ hist' = <<>>
                   ELSE /\ trace' = g.calls \o <<forget>>
                        /\ aws' = g.aws
                        /\ hist' = <<[name |-> global, region |-> cfile.region,
                                      id |-> g.id, made |-> Len(g.calls) = 5]>>

\* set_region(region)
SetRegion ==
  \E region \in Regions \cup {"mars"}, q \in {-1, 0} :
    /\ BeganRepo("set_region", [op |-> "set_region", name |-> <<>>,
                                tags |-> DefaultTags, fault |-> q])
    /\ UNCHANGED <<aws, repo, hist>>
    /\ IF q = 0
       THEN /\ trace' = <<<<"describe_regions", "", "error">>>>
            /\ outcome' = Raise("ClientError", region)
            /\ UNCHANGED cfile
       ELSE IF region \notin Regions
       THEN /\ trace' = <<<<"describe_regions", "", "ok">>>>
            /\ outcome' = Raise("CloudknotInputError", region)
            /\ UNCHANGED cfile
       ELSE /\ trace' = <<<<"describe_regions", "", "ok">>, <<"write", "region", region>>>>
            /\ outcome' = Return(<<>>)
            /\ cfile' = [cfile EXCEPT !.region = region]

\* a repository is deleted by someone else
EnvLoseRepo ==
  /\ prog = "repo" /\ pc = "idle" /\ nops < MaxOps
  /\ \E j \in 1..Len(aws.repos) :
       /\ aws.repos[j].live
       /\ aws' = [aws EXCEPT !.repos[j].live = FALSE]
  /\ op' = "env" /\ nops' = nops + 1
  /\ trace' = <<>> /\ outcome' = NoOutcome
  /\ hist' = <<>>
  /\ UNCHANGED <<jobVars, img, reg, thr, prog, pc, args, pars, CONFIG, cfile, snap, repo>>

\* no DockerRepo object yet; remotely possibly a repository "a" of someone's
InitRepo ==
  /\ JobOff
  /\ prog = "repo" /\ pc = "idle" /\ op = "none"
  /\ nops = 0 /\ args = NoArgs
  /\ trace = <<>> /\ outcome = NoOutcome
  /\ pars = NoPars
  /\ CONFIG = <<>>
  /\ \E c \in BOOLEAN :
       cfile = [pars |-> <<>>, configured |-> c, region |-> "us-east-1",
                ecr_repo |-> <<>>, repos |-> {}, images |-> {}]
  /\ \E pre \in {<<>>, <<[region |-> "us-east-1", name |-> "a", live |-> TRUE,
                          tags |-> {[Key |-> "Owner", Value |-> "bob"]}]>>} :
       aws = [roles |-> {}, vpcs |-> <<>>, sgs |-> <<>>, repos |-> pre]
  /\ repo = NoRepo
  /\ hist = <<>>
  /\ reg = NoReg
  /\ thr = NoThr
  /\ img = NoImg
  /\ snap = [cfile |-> cfile, aws |-> aws, repo |-> repo, hist |-> hist]

(* ----------------------------- DockerImage ---------------------------- *)
\* an operation on the DockerImage object begins
BeganImg(o, a) ==
  /\ prog \in {"repo", "objects"} /\ pc = "idle" /\ nops < MaxOps
  /\ op' = o
  /\ nops' = nops + 1
  /\ args' = a
  /\ snap' = [cfile |-> cfile, aws |-> aws, repo |-> repo, hist |-> hist, img |-> img]
  /\ UNCHANGED <<jobVars, reg, thr, prog, pc, pars, CONFIG, aws, repo, hist>>

\* DockerImage(name=name, func=f) of a name that has no section in the file
ImgInit ==
  \E name \in RepoNames :
    LET nm == Join("", name)
        fail(kind) ==
          /\ trace' = <<>>
          /\ outcome' = Raise(kind, nm)
          /\ UNCHANGED <<img, cfile>>
    IN  /\ ~img.built
        /\ BeganImg("DockerImage", [op |-> "DockerImage", name |-> name])
        /\ IF ~cfile.configured THEN fail("CloudknotConfigurationError")
           ELSE IF ~PatternMatch(name) THEN fail("CloudknotInputError")
           ELSE /\ trace' = <<<<"add_resource", "docker-image " \o nm, "ok">>>>
                /\ outcome' = Return(<<>>)
                /\ img' = [built |-> TRUE, name |-> nm, region |-> cfile.region,
                           clobbered |-> FALSE, images |-> {}, repo_uri |-> ""]
                /\ cfile' = [cfile EXCEPT !.images = {}]

\* DockerImage.build(tags=tag)
ImgBuild ==
  \E tag \in {"t1", "latest"} :
    LET im == "cloudknot/" \o img.name \o ":" \o tag
    IN  /\ img.built
        /\ BeganImg("DockerImage.build", [op |-> "DockerImage.build", tag |-> tag])
        /\ IF img.clobbered
           THEN /\ trace' = <<>>
                /\ outcome' = Raise("ResourceClobberedException", img.name)
                /\ UNCHANGED <<img, cfile>>
           ELSE IF tag = "latest"
           THEN /\ trace' = <<>>
                /\ outcome' = Raise("CloudknotInputError", img.name)
                /\ UNCHANGED <<img, cfile>>
           ELSE /\ trace' = <<<<"docker_build", im, "ok">>,
                              <<"add_resource", "docker-image " \o img.name, "ok">>>>
                /\ outcome' = Return(<<>>)
                /\ img' = [img EXCEPT !.images = @ \cup {im}]
                /\ cfile' = [cfile EXCEPT !.images = @ \cup img.images \cup {im}]

\* DockerImage.push(repo_uri=uri), "" for a call with neither repo nor repo_uri
ImgPush ==
  \E uri \in {"", "registry/a"} :
    LET stop(kind) ==
          /\ trace' = <<>>
          /\ outcome' = Raise(kind, img.name)
          /\ UNCHANGED <<img, cfile>>
    IN  /\ img.built
        /\ BeganImg("DockerImage.push", [op |-> "DockerImage.push", uri |-> uri])
        /\ IF img.clobbered THEN stop("ResourceClobberedException")
           ELSE IF uri = "" \/ img.images = {} THEN stop("CloudknotInputError")
           ELSE /\ trace' = <<<<"get_user", "", "ok">>,
                              <<"get_authorization_token", "", "ok">>,
                              <<"docker_push", uri, "ok">>,
                              <<"add_resource", "docker-image " \o img.name, "ok">>>>
                /\ outcome' = Return(<<>>)
                /\ img' = [img EXCEPT !.repo_uri = uri]
                /\ UNCHANGED cfile

\* DockerImage.clobber()
ImgClobber ==
  /\ img.built
  /\ BeganImg("DockerImage.clobber", [op |-> "DockerImage.clobber"])
  /\ IF img.clobbered
     THEN /\ trace' = <<>>
          /\ outcome' = Return(<<>>)
          /\ UNCHANGED <<img, cfile>>
     ELSE /\ trace' = (IF img.repo_uri # "" THEN <<<<"get_user", "", "ok">>>> ELSE <<>>)
                        \o <<<<"remove_section", "docker-image " \o img.name, "ok">>>>
          /\ outcome' = Return(<<>>)
          /\ img' = [img EXCEPT !.clobbered = TRUE]
          /\ cfile' = [cfile EXCEPT !.images = {}]

\* a recorded job that runs or has succeeded, and no DockerImage object yet
InitObjects ==
  /\ pc = "idle" /\ op = "none"
  /\ array_job = FALSE /\ input = <<1>> /\ retries = 1
  /\ job_id = "j1" /\ created_id = "j1"
  /\ clobbered = FALSE
  /\ config = {"j0", "j1"}
  /\ timeout = <<>> /\ elapsed = 0 /\ state_read = ""
  /\ idx = 0 /\ attempt = 0 /\ results = <<>>
  /\ trace = <<>> /\ outcome = NoOutcome
  /\ snap = [clobbered |-> FALSE, config |-> config, killed |-> FALSE]
  /\ done_read = <<>>
  /\ rjob = "j1" /\ rsize = 0
  /\ status \in {"RUNNING", "SUCCEEDED"}
  /\ nAttempts = 1
  /\ killed = FALSE
  /\ catt = [i \in {0} |-> 1] /\ cdone = {}
  /\ s3in = {} /\ s3out = {}
  /\ prog = "objects"
  /\ nops = 0 /\ args = NoArgs
  /\ pars = NoPars
  /\ CONFIG = <<>>
  /\ cfile = [pars |-> <<>>, configured |-> TRUE, region |-> "us-east-1",
             ecr_repo |-> <<>>, repos |-> {}, images |-> {}]
  /\ aws = [roles |-> {}, vpcs |-> <<>>, sgs |-> <<>>, repos |-> <<>>]
  /\ repo = NoRepo
  /\ hist = <<>>
  /\ reg = NoReg
  /\ thr = NoThr
  /\ img = NoImg

(* ---- Pars, DockerRepo with DockerImage, BatchJob with DockerImage ---- *)
InitResources == InitPars \/ InitRepo \/ InitObjects

NextResources ==
  \/ NextPars
  \/ RepoInit
  \/ SetEcrRepo
  \/ RepoClobber
  \/ SetRegion
  \/ EnvLoseRepo
  \/ ImgInit
  \/ ImgBuild
  \/ ImgPush
  \/ ImgClobber
  \/ DoneCall
  \/ ResultCall
  \/ Result
  \/ Terminate
  \/ Clobber

SpecResources == InitResources /\ [][NextResources]_vars

(* ------------------ claims about adopt-or-create ---------------------- *)
\* the operation just finished constructs, with no remote failure, the repository
\* that the last completed construction made or adopted, in the same region
SecondConstruction ==
  /\ prog = "repo" /\ op \in {"DockerRepo", "set_ecr_repo"}
  /\ snap.hist # <<>>
  /\ snap.hist[1].name = Join("", args.name)
  /\ snap.hist[1].region = snap.cfile.region
  /\ PatternMatch(args.name)
  /\ args.fault = -1
  /\ op = "DockerRepo" =>
       /\ snap.cfile.configured
       /\ GetTags(Join("", args.name),
                  IF args.tags.t = "none" THEN DefaultTags ELSE args.tags).ok

\* C18: constructing a DockerRepo, or calling set_ecr_repo, for a valid name right
\* after a completed construction of the same name in the same region returns the
\* same remote repository and issues no create_repository, so the two constructions
\* together issue at most one
C18_SecondAdopts ==
  SecondConstruction =>
    /\ outcome.kind = "return"
    /\ \A k \in 1..Len(trace) : trace[k][1] # "create_repository"
    /\ hist # <<>>
    /\ hist[1].id = snap.hist[1].id
    /\ op = "DockerRepo" => repo.uri = RepoUri(snap.hist[1].id)

\* a DockerRepo adopts the repository the construction before it created
C18_Witness ==
  /\ SecondConstruction
  /\ op = "DockerRepo"
  /\ snap.hist[1].made
  /\ outcome.kind = "return"
  /\ repo.uri = RepoUri(snap.hist[1].id)

\* the lookup that precedes a create call
LookupOf(call) ==
  CASE call = "create_role" -> "describe_role"
    [] call = "create_vpc" -> "describe_vpc"
    [] call = "create_sg" -> "describe_sg"
    [] call = "create_repository" -> "describe_repositories"

Lookups == {"describe_role", "describe_vpc", "describe_sg", "describe_repositories"}

\* C19: for roles, VPCs, security groups and repositories, every create call is
\* directly preceded by the lookup of the same kind answering 'not found'; a lookup
\* that fails otherwise is the last call of the operation, which raises that error
C19_LookupBeforeCreate ==
  /\ \A k \in 1..Len(trace) :
       trace[k][1] \in {"create_role", "create_vpc", "create_sg", "create_repository"} =>
         /\ k > 1
         /\ trace[k - 1][1] = LookupOf(trace[k][1])
         /\ trace[k - 1][3] = "missing"
         /\ trace[k][1] = "create_repository" => trace[k - 1][2] = trace[k][2]
  /\ \A k \in 1..Len(trace) :
       (trace[k][1] \in Lookups /\ trace[k][3] = "error") =>
         /\ k = Len(trace)
         /\ pc = "idle"
         /\ outcome.kind = "ClientError"

\* a repository is created after the lookup answered 'not found', and in another
\* run of the model a failed lookup ended a construction
C19_Witness ==
  /\ prog = "repo" /\ op = "DockerRepo"
  /\ \E k \in 1..Len(trace) : trace[k][1] = "create_repository" /\ trace[k][3] = "ok"
  /\ outcome.kind = "return"

\* reserved keys among the tags the caller passed
ReservedIn(tg) ==
  {"Name", "Owner", "Environment"} \cap
    (IF tg.t = "dict" THEN DOMAIN tg.v[1]
     ELSE IF tg.t = "list" /\ \A j \in 1..Len(tg.v) : "Key" \in DOMAIN tg.v[j]
     THEN {tg.v[j]["Key"] : j \in 1..Len(tg.v)}
     ELSE {})

\* C20: a DockerRepo whose caller passed a tag with a reserved key (Name, Owner,
\* Environment) raises ValueError, and every tag set applied to a repository
\* carries Name = its name, Owner = the current user, Environment = cloudknot
C20_ReservedTagsRejected ==
  /\ (prog = "repo" /\ op = "DockerRepo" /\ snap.cfile.configured
        /\ PatternMatch(args.name) /\ ReservedIn(args.tags) # {})
       => outcome.kind = "ValueError"
  /\ \A k \in 1..Len(trace) :
       trace[k][1] = "tag_resource" =>
         {[Key |-> "Name", Value |-> trace[k][2]],
          [Key |-> "Owner", Value |-> User],
          [Key |-> "Environment", Value |-> "cloudknot"]} \subseteq trace[k][4]

(* C21: in a group construction (recorded or new name) a ResourceExists or  *)
(* ResourceDoesNotExist signal of a constituent never reaches the caller,   *)
(* and every other error of a remote call reaches the caller unchanged.     *)
C21_SignalsResolved ==
  EndedPars("init") =>
    /\ outcome.kind \notin {"ResourceExistsException", "ResourceDoesNotExistException"}
    /\ (\E k \in 1..Len(trace) :
          trace[k][1] \in {"describe_role", "describe_vpc", "describe_sg",
                           "create_role", "create_vpc", "create_sg"}
          /\ trace[k][3] = "error")
         => outcome.kind = "ClientError"

(* C22: when delete_repository in DockerRepo.clobber fails with an error    *)
(* other than 'not found', the error reaches the caller, the repository     *)
(* stays in the durable record and the object is not marked clobbered.      *)
C22_DeleteErrorRaised ==
  (/\ prog = "repo" /\ op = "clobber"
   /\ \E k \in 1..Len(trace) :
        trace[k][1] = "delete_repository" /\ trace[k][3] = "error")
    => /\ outcome.kind = "ClientError"
       /\ ~repo.clobbered
       /\ cfile.repos = snap.cfile.repos

(* ========================= the client registry ======================== *)
\* _make_client(service_name): one more handle, bound to the active region
MakeClient(r, s, region, by) ==
  [r EXCEPT !.made = Append(@, [svc |-> s, region |-> region, by |-> by])]

\* getattr(clients, s) by a thread that holds the service's lock: the cached handle,
\* or a new one that is cached
NestedGet(r, s, region) ==
  IF r.cache[s] # 0 THEN r
  ELSE [MakeClient(r, s, region, "refresh") EXCEPT !.cache[s] = Len(r.made) + 1]

\* import of the package: the registry object is made, then create_clients()
\* makes a client for every service
Import ==
  /\ prog = "clients" /\ ~reg.started
  /\ reg' = [reg EXCEPT
               !.started = TRUE,
               !.made = @ \o [i \in 1..Len(Services) |->
                                [svc |-> Services[i], region |-> cfile.region,
                                 by |-> "create_clients"]]]
  /\ op' = "import"
  /\ UNCHANGED <<jobVars, img, prog, pc, args, pars, CONFIG, aws, repo, hist, trace,
               outcome, snap, nops, cfile, thr>>

\* clients.<service> read by thread t: cached_property.__get__ around the getter,
\* which makes the client while holding the service's lock
ClientGet(t) ==
  /\ prog = "clients" /\ reg.started
  /\ LET me == thr[t]
         s == me.svc
         changing == \E u \in 1..NThreads : thr[u].pc \in {"arg", "reset", "fill"}
     IN  \/ /\ me.pc = "idle" /\ nops < MaxOps
            /\ \E x \in {Services[i] : i \in 1..Len(Services)} :
                 thr' = [thr EXCEPT ![t] =
                           [me EXCEPT !.svc = x, !.fresh = ~changing, !.val = 0,
                                      !.got = reg.cache[x],
                                      !.pc = IF reg.cache[x] # 0 THEN "idle"
                                             ELSE IF reg.locked THEN "cp" ELSE "lk"]]
            /\ nops' = nops + 1
            /\ op' = "get"
            /\ UNCHANGED reg
         \/ /\ me.pc = "cp" /\ reg.cplock[s] = 0
            /\ IF reg.cache[s] # 0
               THEN /\ thr' = [thr EXCEPT ![t] = [me EXCEPT !.got = reg.cache[s],
                                                            !.pc = "idle"]]
                    /\ UNCHANGED reg
               ELSE /\ thr' = [thr EXCEPT ![t] = [me EXCEPT !.pc = "lk"]]
                    /\ reg' = [reg EXCEPT !.cplock[s] = t]
            /\ UNCHANGED <<nops, op>>
         \/ /\ me.pc = "lk" /\ reg.lock[s] = 0
            /\ reg' = [reg EXCEPT !.lock[s] = t]
            /\ thr' = [thr EXCEPT ![t] = [me EXCEPT !.pc = "mk"]]
            /\ UNCHANGED <<nops, op>>
         \/ /\ me.pc = "mk" /\ reg.rlock = 0
            /\ reg' = [MakeClient(reg, s, cfile.region, "get") EXCEPT !.lock[s] = 0]
            /\ thr' = [thr EXCEPT ![t] = [me EXCEPT !.val = Len(reg.made) + 1,
                                                     !.pc = "st"]]
            /\ UNCHANGED <<nops, op>>
         \/ /\ me.pc = "st"
            /\ reg' = [reg EXCEPT !.cache[s] = me.val,
                                  !.cplock[s] = IF @ = t THEN 0 ELSE @]
            /\ thr' = [thr EXCEPT ![t] = [me EXCEPT !.got = me.val, !.pc = "idle"]]
            /\ UNCHANGED <<nops, op>>
  /\ UNCHANGED <<jobVars, img, prog, pc, args, pars, CONFIG, aws, repo, hist, trace,
               outcome, snap, cfile>>

\* set_region(region) by thread t: the region is written, then clients.refresh(
\* clients.iam...) drops every cached handle and reads every service again
ClientSetRegion(t) ==
  /\ prog = "clients" /\ reg.started
  /\ LET me == thr[t]
         s == Services[me.i]
         free(x) == reg.lock[x] = 0 /\ (reg.cache[x] = 0 /\ reg.locked => reg.cplock[x] = 0)
         next(p) == IF me.i < Len(Services) THEN [me EXCEPT !.i = @ + 1]
                    ELSE [me EXCEPT !.i = 1, !.pc = p]
     IN  \/ /\ me.pc = "idle" /\ nops < MaxOps /\ reg.rlock = 0
            /\ \E r \in Regions : cfile' = [cfile EXCEPT !.region = r]
            /\ reg' = [reg EXCEPT !.rlock = t, !.mark = Len(reg.made), !.changes = 1]
            /\ thr' = [u \in 1..NThreads |->
                         IF u = t THEN [me EXCEPT !.pc = "arg", !.i = 1, !.fresh = FALSE,
                                                  !.got = 0]
                         ELSE [thr[u] EXCEPT !.fresh = FALSE]]
            /\ nops' = nops + 1
            /\ op' = "set_region"
         \/ /\ me.pc = "arg" /\ free("iam")
            /\ reg' = NestedGet(reg, "iam", cfile.region)
            /\ thr' = [thr EXCEPT ![t] = [me EXCEPT !.pc = "reset"]]
            /\ UNCHANGED <<nops, op, cfile>>
         \/ /\ me.pc = "reset" /\ reg.lock[s] = 0
            /\ reg' = [reg EXCEPT !.cache[s] = 0]
            /\ thr' = [thr EXCEPT ![t] = next("fill")]
            /\ UNCHANGED <<nops, op, cfile>>
         \/ /\ me.pc = "fill" /\ free(s)
            /\ reg' = [NestedGet(reg, s, cfile.region) EXCEPT
                         !.rlock = IF me.i < Len(Services) THEN @ ELSE 0]
            /\ thr' = [thr EXCEPT ![t] = next("idle")]
            /\ UNCHANGED <<nops, op, cfile>>
  /\ UNCHANGED <<jobVars, img, prog, pc, args, pars, CONFIG, aws, repo, hist, trace,
               outcome, snap>>

\* DockerImage.build(), its end, by thread t: the recorded images are read under
\* the lock, then the union with the image just built is recorded by add_resource
StoreBuild(t) ==
  /\ prog = "clients" /\ reg.started
  /\ LET me == thr[t]
         tag == "img:" \o ToString(t)
     IN  \/ /\ me.pc = "idle" /\ nops < MaxOps /\ reg.rlock = 0
            /\ thr' = [thr EXCEPT ![t] = [me EXCEPT !.pc = "b1", !.upd = "",
                                                     !.read = <<cfile.images>>]]
            /\ nops' = nops + 1
            /\ op' = "build"
            /\ UNCHANGED cfile
         \/ /\ me.pc = "b1" /\ reg.rlock = 0
            /\ cfile' = [cfile EXCEPT !.images = me.read[1] \cup {tag}]
            /\ thr' = [thr EXCEPT ![t] = [me EXCEPT !.pc = "idle", !.upd = tag]]
            /\ UNCHANGED <<nops, op>>
  /\ UNCHANGED <<jobVars, img, prog, pc, args, pars, CONFIG, aws, repo, hist, trace,
                 outcome, snap, reg>>

\* set_role of _role_setter, its end, by thread t for the t-th role: the file is
\* read, the option set, and the whole of it written
StoreSetRole(t) ==
  /\ prog = "clients" /\ reg.started
  /\ LET me == thr[t]
     IN  \/ /\ me.pc = "idle" /\ nops < MaxOps
            /\ thr' = [thr EXCEPT ![t] = [me EXCEPT !.pc = "r1", !.upd = "",
                                                     !.read = <<cfile>>]]
            /\ nops' = nops + 1
            /\ op' = "set_role"
            /\ UNCHANGED cfile
         \/ /\ me.pc = "r1"
            /\ cfile' = [me.read[1] EXCEPT !.pars = SetOption(@, Field[t], "new")]
            /\ thr' = [thr EXCEPT ![t] = [me EXCEPT !.pc = "idle", !.upd = Field[t]]]
            /\ UNCHANGED <<nops, op>>
  /\ UNCHANGED <<jobVars, img, prog, pc, args, pars, CONFIG, aws, repo, hist, trace,
                 outcome, snap, reg>>

\* the process before the package is imported, with the cached_property of either
\* kind: serialising the getters of a property (locked) or not; the file records
\* a group and an image
InitClients ==
  /\ JobOff
  /\ prog = "clients" /\ pc = "idle" /\ op = "none"
  /\ nops = 0 /\ args = NoArgs
  /\ trace = <<>> /\ outcome = NoOutcome
  /\ pars = NoPars
  /\ CONFIG = <<>>
  /\ cfile = [pars |-> <<[f \in {Field[k] : k \in 1..5} |-> "old"]>>,
              configured |-> TRUE, region |-> "us-east-1",
              ecr_repo |-> <<>>, repos |-> {}, images |-> {"img:0"}]
  /\ aws = [roles |-> {}, vpcs |-> <<>>, sgs |-> <<>>, repos |-> <<>>]
  /\ repo = NoRepo
  /\ hist = <<>>
  /\ snap = [cfile |-> cfile]
  /\ \E b \in BOOLEAN : reg = [NoReg EXCEPT !.locked = b]
  /\ thr = NoThr
  /\ img = NoImg

NextClients ==
  \/ Import
  \/ \E t \in 1..NThreads : ClientGet(t)
  \/ \E t \in 1..NThreads : ClientSetRegion(t)
  \/ \E t \in 1..NThreads : StoreBuild(t)
  \/ \E t \in 1..NThreads : StoreSetRole(t)

SpecClients == InitClients /\ [][NextClients]_vars

(* ---------------------- claims about the registry --------------------- *)
(* C23: while no reset has happened, the handle of a service is constructed *)
(* by the threads' accesses at most once, and all threads that read the     *)
(* service received the same handle.                                        *)
C23_ConstructedOnce ==
  (prog = "clients" /\ reg.changes = 0) =>
    \A i \in 1..Len(Services) :
      /\ Cardinality({h \in 1..Len(reg.made) :
                        reg.made[h].svc = Services[i] /\ reg.made[h].by = "get"}) <= 1
      /\ \A t, u \in 1..NThreads :
           (/\ thr[t].pc = "idle" /\ thr[t].svc = Services[i] /\ thr[t].got # 0
            /\ thr[u].pc = "idle" /\ thr[u].svc = Services[i] /\ thr[u].got # 0)
             => thr[t].got = thr[u].got

(* C24: a handle obtained by an access that began after set_region returned *)
(* was constructed after the region was written and is bound to the active  *)
(* region.                                                                  *)
C24_FreshAfterChange ==
  \A t \in 1..NThreads :
    (thr[t].pc = "idle" /\ thr[t].fresh /\ thr[t].got # 0 /\ reg.changes > 0) =>
      /\ reg.made[thr[t].got].region = cfile.region
      /\ thr[t].got > reg.mark

(* C25: when the package has been imported and nothing has been accessed,   *)
(* no client handle has been constructed; handles are only constructed by   *)
(* an access to their service.                                              *)
C25_NoEagerClients ==
  /\ (prog = "clients" /\ reg.started /\ nops = 0) => reg.made = <<>>
  /\ \A h \in 1..Len(reg.made) : reg.made[h].by \in {"get", "refresh"}

(* C26: every update of the file that a thread has completed is present in *)
(* the file while that thread is idle: the image it recorded is among the  *)
(* recorded images, the role it set is the value of the group's option.    *)
C26_BothUpdatesPresent ==
  prog = "clients" =>
    \A t \in 1..NThreads :
      (thr[t].pc = "idle" /\ thr[t].upd # "") =>
        \/ thr[t].upd \in cfile.images
        \/ /\ thr[t].upd \in DOMAIN cfile.pars[1]
           /\ cfile.pars[1][thr[t].upd] = "new"

(* ------------------ claims about the clobbered objects ---------------- *)
\* what C27 asks of an operation that found the clobbered flag set
C27_Refused ==
  /\ (prog = "objects" /\ clobbered /\ op \in {"done", "result", "terminate"}) =>
       /\ trace = <<>>
       /\ pc = "idle" => outcome = Raise("ResourceClobberedException", job_id)
  /\ (op \in {"DockerImage.build", "DockerImage.push"} /\ snap.img.clobbered) =>
       /\ trace = <<>>
       /\ outcome = Raise("ResourceClobberedException", img.name)
       /\ img = snap.img /\ cfile = snap.cfile
  /\ (prog = "objects" /\ op = "clobber" /\ pc = "idle" /\ snap.clobbered) =>
       /\ trace = <<>> /\ outcome = Return(<<>>)
       /\ clobbered /\ config = snap.config /\ killed = snap.killed
  /\ (op = "DockerImage.clobber" /\ snap.img.clobbered) =>
       /\ trace = <<>> /\ outcome = Return(<<>>)
       /\ img = snap.img /\ cfile = snap.cfile
  /\ (prog = "repo" /\ op = "clobber" /\ snap.repo.clobbered) =>
       /\ trace = <<>> /\ outcome = Return(<<>>)
       /\ repo = snap.repo /\ cfile = snap.cfile /\ aws = snap.aws

(* C27: on a clobbered BatchJob done, result and terminate (all of which    *)
(* read status first) raise the resource-clobbered error with no request    *)
(* issued, on a clobbered DockerImage build and push do, a repeated         *)
(* clobber() of either, or of a DockerRepo, returns with no request and no *)
(* change of the record, and no step takes a clobbered flag back to false. *)
C27_ClobberedIsFinal ==
  /\ []C27_Refused
  /\ [][/\ clobbered => clobbered'
        /\ img.clobbered => img'.clobbered]_vars

\* a clobbered job and a clobbered image, push just refused
C27_Witness ==
  /\ prog = "objects" /\ clobbered /\ img.clobbered
  /\ op = "DockerImage.push"
  /\ outcome.kind = "ResourceClobberedException"

(* C28: clobber() of a DockerRepo and build, push and clobber of a          *)
(* DockerImage, called on an object not yet clobbered whose bound region is *)
(* not the active one, raise the region-mismatch error with no request      *)
(* issued and no record changed.                                            *)
C28_MismatchRaises ==
  /\ (/\ prog = "repo" /\ op = "clobber"
      /\ ~snap.repo.clobbered /\ snap.repo.region # snap.cfile.region) =>
       /\ outcome.kind = "RegionException"
       /\ trace = <<>> /\ cfile = snap.cfile /\ repo = snap.repo
  /\ (/\ prog = "repo"
      /\ op \in {"DockerImage.build", "DockerImage.push", "DockerImage.clobber"}
      /\ ~snap.img.clobbered /\ snap.img.region # snap.cfile.region) =>
       /\ outcome.kind = "RegionException"
       /\ trace = <<>> /\ cfile = snap.cfile /\ img = snap.img

(* C29: with the store configured, DockerRepo(name) and DockerImage(name)   *)
(* of a name that is not a letter followed by letters, digits and hyphens   *)
(* only raise the input error, with no request issued and nothing recorded. *)
C29_BadNameRejected ==
  LET ok(n) == /\ Len(n) >= 1
               /\ n[1] \in {"a", "c", "d", "k", "l", "n", "o", "t", "u", "A"}
               /\ \A j \in 2..Len(n) :
                    n[j] \in {"a", "c", "d", "k", "l", "n", "o", "t", "u", "A", "1", "-"}
  IN  (/\ prog = "repo" /\ op \in {"DockerRepo", "DockerImage"}
       /\ snap.cfile.configured /\ ~ok(args.name)) =>
        /\ outcome.kind = "CloudknotInputError"
        /\ trace = <<>>
        /\ cfile = snap.cfile /\ aws = snap.aws

(* C30: an operation begun while the file does not hold configured = True   *)
(* issues no create, tag or delete request, and a constructor so begun      *)
(* raises the configuration error having done nothing.                      *)
C30_NothingUnconfigured ==
  (prog = "repo" /\ op # "none" /\ ~snap.cfile.configured) =>
    /\ \A k \in 1..Len(trace) :
         trace[k][1] \notin {"create_repository", "tag_resource", "delete_repository"}
    /\ op \in {"DockerRepo", "DockerImage"} =>
         /\ outcome.kind = "CloudknotConfigurationError"
         /\ trace = <<>> /\ cfile = snap.cfile /\ aws = snap.aws

(* ======================== cloudknot/validate.py ======================= *)
\* the loop of any kind of marker: every isinstance test passes
GroupsOfAnyKind(cls, kind) ==
  LET RECURSIVE pairs(_)
      pairs(c) ==
        IF c = <<>> THEN <<>>
        ELSE [j \in 1..Len(c[1].metadata) |-> <<c[1].name, c[1].metadata[j]>>]
               \o pairs(Tail(c))
      add(g, tag, f) ==
        IF \E k \in 1..Len(g) : g[k].tag = tag
        THEN [k \in 1..Len(g) |->
                IF g[k].tag = tag THEN [g[k] EXCEPT !.fields = Append(@, f)] ELSE g[k]]
        ELSE Append(g, [tag |-> tag, fields |-> <<f>>])
      RECURSIVE fold(_, _)
      fold(g, ps) ==
        IF ps = <<>> THEN g
        ELSE fold(add(g, ps[1][2].tag, ps[1][1]), Tail(ps))
  IN  fold(<<>>, pairs(cls))

\* for field_name, annotation in cls.model_fields.items(): for m in annotation.metadata:
\* if isinstance(m, <kind>): groups.setdefault(m.tag, []).append(field_name);
\* the dict as its items in insertion order
Groups(cls, kind) ==
  LET RECURSIVE pairs(_)
      pairs(c) ==
        IF c = <<>> THEN <<>>
        ELSE [j \in 1..Len(c[1].metadata) |-> <<c[1].name, c[1].metadata[j]>>]
               \o pairs(Tail(c))
      add(g, tag, f) ==
        IF \E k \in 1..Len(g) : g[k].tag = tag
        THEN [k \in 1..Len(g) |->
                IF g[k].tag = tag THEN [g[k] EXCEPT !.fields = Append(@, f)] ELSE g[k]]
        ELSE Append(g, [tag |-> tag, fields |-> <<f>>])
      RECURSIVE fold(_, _)
      fold(g, ps) ==
        IF ps = <<>> THEN g
        ELSE fold(IF ps[1][2].kind = kind THEN add(g, ps[1][2].tag, ps[1][1]) ELSE g,
                  Tail(ps))
  IN  fold(<<>>, pairs(cls))

\* MutexFieldGroup.validate(cls, data), data as the set of its keys
MutexValidate(cls, data) ==
  LET g == Groups(cls, "MutexFieldGroup")
      set(k) == {g[k].fields[j] : j \in 1..Len(g[k].fields)}
      bad == {k \in 1..Len(g) : Cardinality(data \cap set(k)) > 1}
      first == CHOOSE k \in bad : \A k2 \in bad : k <= k2
  IN  IF bad = {} THEN Return(data)
      ELSE [kind |-> "mutex_field_groups", id |-> g[first].tag,
            val |-> data \cap set(first)]

\* DependentFieldGroup.validate looking at the first field of each group only
DependentValidateFirst(cls, data) ==
  LET g == Groups(cls, "DependentFieldGroup")
      set(k) == {g[k].fields[j] : j \in 1..Len(g[k].fields)}
      bad == {k \in 1..Len(g) : g[k].fields[1] \in data /\ data \cap set(k) # set(k)}
      first == CHOOSE k \in bad : \A k2 \in bad : k <= k2
  IN  IF bad = {} THEN Return(data)
      ELSE [kind |-> "dependent_field_groups", id |-> g[first].tag,
            val |-> set(first)]

\* DependentFieldGroup.validate(cls, data), data as the set of its keys
DependentValidate(cls, data) ==
  LET g == Groups(cls, "DependentFieldGroup")
      set(k) == {g[k].fields[j] : j \in 1..Len(g[k].fields)}
      bad == {k \in 1..Len(g) :
                \E j \in 1..Len(g[k].fields) :
                  g[k].fields[j] \in data /\ data \cap set(k) # set(k)}
      first == CHOOSE k \in bad : \A k2 \in bad : k <= k2
  IN  IF bad = {} THEN Return(data)
      ELSE [kind |-> "dependent_field_groups", id |-> g[first].tag,
            val |-> set(first)]

\* the model validator check_mutex_field_groups runs on the input
ValidateMutex ==
  /\ prog = "validate"
  /\ op' = "mutex"
  /\ outcome' = MutexValidate(args.cls, args.data)
  /\ UNCHANGED <<jobVars, img, reg, thr, prog, pc, nops, args, pars, CONFIG, cfile,
                 aws, repo, hist, trace, snap>>

\* the model validator check_dependent_field_groups runs on the input
ValidateDependent ==
  /\ prog = "validate"
  /\ op' = "dependent"
  /\ outcome' = DependentValidate(args.cls, args.data)
  /\ UNCHANGED <<jobVars, img, reg, thr, prog, pc, nops, args, pars, CONFIG, cfile,
                 aws, repo, hist, trace, snap>>

\* a model class of three fields, each annotated with at most two markers, and
\* input data holding any of the fields and possibly a key that is no field
InitValidate ==
  /\ JobOff
  /\ prog = "validate" /\ pc = "idle" /\ op = "none"
  /\ nops = 0
  /\ LET marks == [kind : {"MutexFieldGroup"}, tag : {"a", "b"}]
                    \cup [kind : {"DependentFieldGroup"}, tag : {"1", "2"}]
         metas == {<<>>} \cup {<<m>> : m \in marks}
                    \cup {<<m, n>> : m \in marks, n \in marks}
     IN  \E m1 \in metas, m2 \in metas, m3 \in metas,
            d \in SUBSET {"id", "name", "account", "cat"} :
           args = [op |-> "validate",
                   cls |-> <<[name |-> "id", metadata |-> m1],
                             [name |-> "name", metadata |-> m2],
                             [name |-> "account", metadata |-> m3]>>,
                   data |-> d]
  /\ trace = <<>> /\ outcome = NoOutcome
  /\ pars = NoPars
  /\ CONFIG = <<>>
  /\ cfile = [pars |-> <<>>, configured |-> TRUE, region |-> "us-east-1",
             ecr_repo |-> <<>>, repos |-> {}, images |-> {}]
  /\ aws = [roles |-> {}, vpcs |-> <<>>, sgs |-> <<>>, repos |-> <<>>]
  /\ repo = NoRepo
  /\ hist = <<>>
  /\ snap = [cfile |-> cfile]
  /\ reg = NoReg
  /\ thr = NoThr
  /\ img = NoImg

NextValidate == ValidateMutex \/ ValidateDependent

SpecValidate == InitValidate /\ [][NextValidate]_vars

(* --------------------- claims about the validators -------------------- *)
(* C31: MutexFieldGroup.validate raises mutex_field_groups exactly when,    *)
(* for some tag, more than one of the fields that carry a MutexFieldGroup   *)
(* marker of that tag is among the keys of the data; the fields it reports  *)
(* all carry one common tag.                                                *)
C31_MutexExactly ==
  (prog = "validate" /\ op = "mutex") =>
    LET has(i, tag) ==
          \E j \in 1..Len(args.cls[i].metadata) :
            args.cls[i].metadata[j] = [kind |-> "MutexFieldGroup", tag |-> tag]
        present(tag) == {i \in 1..Len(args.cls) :
                           args.cls[i].name \in args.data /\ has(i, tag)}
    IN  /\ outcome.kind = "mutex_field_groups"
             <=> \E tag \in {"a", "b"} : Cardinality(present(tag)) > 1
        /\ outcome.kind # "mutex_field_groups" => outcome = Return(args.data)
        /\ outcome.kind = "mutex_field_groups" =>
             \E tag \in {"a", "b"} :
               outcome.val = {args.cls[i].name : i \in present(tag)}

\* two annotated fields that share no tag are present, one of them carrying both
\* tags, and the validator returned the data
C31_Witness ==
  /\ prog = "validate" /\ op = "mutex"
  /\ args.cls[1].metadata = <<[kind |-> "MutexFieldGroup", tag |-> "a"]>>
  /\ args.cls[2].metadata = <<[kind |-> "MutexFieldGroup", tag |-> "a"],
                              [kind |-> "MutexFieldGroup", tag |-> "b"]>>
  /\ args.cls[3].metadata = <<[kind |-> "MutexFieldGroup", tag |-> "b"]>>
  /\ args.data = {"id", "account"}
  /\ outcome = Return(args.data)

(* C32: DependentFieldGroup.validate raises dependent_field_groups exactly  *)
(* when, for some tag, some but not all of the fields that carry a          *)
(* DependentFieldGroup marker of that tag are among the keys of the data.   *)
C32_DependentExactly ==
  (prog = "validate" /\ op = "dependent") =>
    LET group(tag) == {i \in 1..Len(args.cls) :
                         \E j \in 1..Len(args.cls[i].metadata) :
                           args.cls[i].metadata[j] =
                             [kind |-> "DependentFieldGroup", tag |-> tag]}
        present(tag) == {i \in group(tag) : args.cls[i].name \in args.data}
    IN  /\ outcome.kind = "dependent_field_groups"
             <=> \E tag \in {"1", "2"} :
                   present(tag) # {} /\ present(tag) # group(tag)
        /\ outcome.kind # "dependent_field_groups" => outcome = Return(args.data)

\* the second field of a group of two is present alone, and the validator raised
C32_Witness ==
  /\ prog = "validate" /\ op = "dependent"
  /\ args.cls[1].metadata = <<[kind |-> "DependentFieldGroup", tag |-> "1"]>>
  /\ args.cls[2].metadata = <<>>
  /\ args.cls[3].metadata = <<[kind |-> "DependentFieldGroup", tag |-> "1"],
                              [kind |-> "MutexFieldGroup", tag |-> "b"]>>
  /\ args.data = {"account", "cat"}
  /\ outcome.kind = "dependent_field_groups"

(* --------------------- further claims about BatchJob ------------------ *)
(* C33: once terminate() or clobber() has returned for a job whose status   *)
(* it read as not terminal, the job is killed or has ended: it is not       *)
(* waiting to run or running.                                               *)
C33_KillTakesEffect ==
  (/\ prog = "job" /\ op \in {"terminate", "clobber"} /\ pc = "idle"
   /\ outcome.kind = "return"
   /\ state_read \in Statuses \ {"SUCCEEDED", "FAILED"}) =>
    killed \/ status \in {"SUCCEEDED", "FAILED"}


\* the remote status is SUCCEEDED or FAILED and no step of the queue changes it
C34_RemoteEnded ==
  \/ status = "SUCCEEDED"
  \/ status = "FAILED" /\ (killed \/ rsize > 0 \/ nAttempts >= retries)

(* C34: a result() with timeout=None that is waiting on a job whose remote  *)
(* status has come to stay at SUCCEEDED or FAILED eventually ends, whatever *)
(* the number of attempts of the remote record and also when the job was    *)
(* cancelled or terminated.                                                 *)
C34_ResultFinishes ==
  []((/\ op = "result" /\ pc # "idle" /\ timeout = <<>> /\ C34_RemoteEnded)
       => <>(pc = "idle"))


(* C35: once the creation of a fresh BatchJob has ended, by returning or by *)
(* raising, the job it submitted to the queue has its id in the durable     *)
(* record.                                                                  *)
C35_SubmittedIsRecorded ==
  (op = "create" /\ pc \in {"idle", "dead"} /\ rjob # "") => rjob \in config


(* C36: whenever clobber() of a BatchJob or of a DockerRepo has ended, by   *)
(* returning or by raising, the object is marked clobbered exactly when its *)
(* entry is absent from the durable record.                                 *)
C36_FlagIffRemoved ==
  /\ (prog \in {"job", "objects"} /\ op = "clobber" /\ pc = "idle") =>
       (clobbered <=> job_id \notin config)
  /\ (prog = "repo" /\ op = "clobber") =>
       (repo.clobbered <=>
          ~\E x \in cfile.repos : x.section = repo.section /\ x.name = repo.name)


(* ------------------- further claims about the registry ---------------- *)
(* C37: once every thread has finished, an access to a service's client and *)
(* a change of the region with its reset among them and no update of the    *)
(* file by build or set_role, every handle in the registry's cache was      *)
(* built for the active region.                                             *)
C37_NoStaleHandleCached ==
  (/\ prog = "clients" /\ reg.changes > 0
   /\ \A t \in 1..NThreads : thr[t].pc = "idle" /\ thr[t].upd = "") =>
    \A i \in 1..Len(Services) :
      reg.cache[Services[i]] # 0 =>
        reg.made[reg.cache[Services[i]]].region = cfile.region


(* ----------------------- further claims about Pars -------------------- *)
(* C38: when a replacement of a role, of the VPC or of the security group   *)
(* of a group has ended, no constituent the group holds has been clobbered  *)
(* by it.                                                                   *)
C38_HeldNotClobbered ==
  (EndedPars("set_role") \/ EndedPars("set_vpc") \/ EndedPars("set_sg")) =>
    \A k \in 1..5 :
      ~\E j \in 1..Len(trace) :
         trace[j] = <<"delete_" \o KindOf[k], pars.held[k], "ok">>


(* C39: when the construction of a group under a new name has failed, every *)
(* role and every VPC that existed remotely before the attempt still        *)
(* exists.                                                                  *)
C39_AdoptedSurvive ==
  (EndedPars("init") /\ snap.cfile.pars = <<>> /\ outcome.kind # "return") =>
    /\ snap.aws.roles \subseteq aws.roles
    /\ LiveIds(snap.aws, "vpc") \subseteq LiveIds(aws, "vpc")


(* ------------ the keys of the object store, writer and reader --------- *)
\* BatchJob(job_id=...): the key the input of the existing job is read from
ReconstructKey(jid) == Join("/", <<"cloudknot.jobs", JobDefName, jid, "input.pickle">>)

(* C40: for every array index and attempt the key the worker writes its     *)
(* output to is one of the keys the collector probes for that index, every  *)
(* output staged is at such a key, and the key the input is staged at is    *)
(* the key the worker reads and the key a job made from its job id reads.   *)
C40_KeysAgree ==
  rjob # "" =>
    /\ \A i \in Indices : \A a \in 1..catt[i] :
         WorkerOutputKey(EnvJobId(rjob, i), array_job, i, a)
           \in {OutputKey(rjob, i, b) : b \in 0..FirstAttempt}
    /\ \A o \in s3out :
         \E i \in Indices, b \in 0..FirstAttempt : o.Key = OutputKey(rjob, i, b)
    /\ \A o \in s3in :
         /\ o.Key = InputKey(rjob)
         /\ o.Key = ReconstructKey(rjob)
         /\ \A i \in Indices : o.Key = WorkerInputKey(EnvJobId(rjob, i), array_job)

\* an array job of two whose second child wrote its output in its second attempt,
\* collected by result()
C40_Witness ==
  /\ array_job /\ rsize = 2
  /\ EndedResult /\ outcome.kind = "return"
  /\ catt[1] = 2
  /\ HasKey(s3out, WorkerOutputKey(EnvJobId(rjob, 1), TRUE, 1, 2))
  /\ HasKey(s3in, ReconstructKey(job_id))

====
